---- MODULE Spec2Model ----
(***************************************************************************)
(* Model of the cleaning -> parquet pipeline of rental_finder               *)
(* (src/cleaning_to_parquet_agent.py): the amount parser parse_amount, the  *)
(* price reconciler apply_notebook_cleaning_rules, the deduplicator         *)
(* deduplicate_df, the loader read_all_cleaned_json, the normaliser         *)
(* normalize_records, the profiler basic_analysis and their chain in main;  *)
(* and of update_property_data and process_batch of PropertyDataCleaner     *)
(* (src/data_cleaning_agent.py).                                            *)
(*                                                                         *)
(* Representation.                                                         *)
(*  - A Python str is a sequence of one-character strings.                 *)
(*  - A Python float (or a missing value) is a record                      *)
(*    [kind, num, den]: kind "num" is the exact rational num/den in lowest *)
(*    terms (den > 0), "inf" is +/-infinity (num = 1 or -1), "nan" is NaN  *)
(*    (pandas' missing number) and "none" is Python's None.  "ValueError"  *)
(*    is the exception float() raises, carried as a value until a handler  *)
(*    catches it or it escapes.  Arithmetic is exact: binary rounding is   *)
(*    not modelled, and -0.0 is 0.                                         *)
(***************************************************************************)
EXTENDS Integers, Sequences, FiniteSets, TLC

VARIABLES
    pc,           \* position of the running call
    value,        \* parse_amount: the argument
    ret,          \* what the running call returned (or the exception that escaped)
    df,           \* the dataset passed to the running stage
    d,            \* apply_notebook_cleaning_rules: the working copy, then the result
    records,      \* main: the records read from the input files
    columns,      \* the column labels of df, in order
    dfc,          \* deduplicate_df: the canonicalised, then sorted, copy
    df_with_url,  \* deduplicate_df: the rows with a usable URL
    df_no_url,    \* deduplicate_df: the other rows
    again,        \* what deduplicate_df returns when applied to its own result
    files,        \* main: the content of the *.json files of the input directory, in path order
    report,       \* what basic_analysis returned
    written,      \* main: the output files written so far
    original,     \* update_property_data: the property as scraped
    corrected,    \* update_property_data: the data the model returned
    updated,      \* update_property_data: the result
    properties,   \* process_batch: the properties, each with what its model call will give
    start_index,  \* process_batch: the index to start from
    batch_size,   \* process_batch: progress is saved every batch_size properties
    next_i,       \* process_batch: the loop index i of the next iteration
    cleaned_properties,  \* process_batch: the list returned
    processed_count,     \* self.processed_count
    errors        \* self.errors

vars ==
    <<pc, value, ret, df, d, records, columns, dfc, df_with_url, df_no_url, again,
      files, report, written, original, corrected, updated, properties, start_index,
      batch_size, next_i, cleaned_properties, processed_count, errors>>

\* the variables of main and of deduplicate_df, which the other calls leave alone
pipelineVars == <<records, columns, dfc, df_with_url, df_no_url, again>>

\* their value in a call made outside main and deduplicate_df
NoPipeline ==
    /\ records = <<>>
    /\ columns = <<>>
    /\ dfc = <<>>
    /\ df_with_url = <<>>
    /\ df_no_url = <<>>
    /\ again = <<>>

\* the input files, the profile report and the output files of main
outputVars == <<files, report, written>>

\* no input file read, no report made, no output file written
NoOutputs ==
    /\ files = <<>>
    /\ report = <<>>
    /\ written = <<>>

\* the variables of the calls of PropertyDataCleaner (src/data_cleaning_agent.py)
cleanerVars ==
    <<original, corrected, updated, properties, start_index, batch_size, next_i,
      cleaned_properties, processed_count, errors>>

\* their value in a call made outside PropertyDataCleaner
NoCleaner ==
    /\ original = <<>>
    /\ corrected = <<>>
    /\ updated = <<>>
    /\ properties = <<>>
    /\ start_index = 0
    /\ batch_size = 0
    /\ next_i = 0
    /\ cleaned_properties = <<>>
    /\ processed_count = 0
    /\ errors = <<>>

(***************************************************************************)
(* Bounds of the model.                                                    *)
(***************************************************************************)
MaxLen == 5      \* every string over Alphabet up to this length is an input
MaxGroups == 3   \* comma-joined inputs hold up to this many groups
MaxRows == 2     \* rows of an input dataset of the reconciler
MaxDedupRows == 3  \* rows of an input dataset of deduplicate_df
MaxRecords == 3  \* records read by main

(***************************************************************************)
(* Program constants.                                                      *)
(***************************************************************************)
MIN_PRICE == 10
MAX_PRICE == 90000

(***************************************************************************)
(* Numbers.                                                                *)
(***************************************************************************)
Abs(n) == IF n < 0 THEN -n ELSE n

RECURSIVE GCD(_, _)
GCD(a, b) == IF b = 0 THEN a ELSE GCD(b, a % b)

RECURSIVE Pow10(_)
Pow10(k) == IF k = 0 THEN 1 ELSE 10 * Pow10(k - 1)

NoneF == [kind |-> "none", num |-> 0, den |-> 1]
NaN == [kind |-> "nan", num |-> 0, den |-> 1]
Inf(sgn) == [kind |-> "inf", num |-> sgn, den |-> 1]
ValueError == [kind |-> "ValueError", num |-> 0, den |-> 1]

\* The float n/dn (dn > 0), in lowest terms.
Rat(n, dn) ==
    LET g == GCD(Abs(n), dn)
    IN  [kind |-> "num", num |-> n \div g, den |-> dn \div g]

Num(n) == Rat(n, 1)

(***************************************************************************)
(* Strings.                                                                *)
(***************************************************************************)
Digits == {"0", "1", "2", "3", "4", "5", "6", "7", "8", "9"}
Whitespace == {" ", "\t", "\n"}

\* str.isdigit() on one character
IsDigit(ch) == ch \in Digits

DigitVal(ch) ==
    CASE ch = "0" -> 0 [] ch = "1" -> 1 [] ch = "2" -> 2 [] ch = "3" -> 3
      [] ch = "4" -> 4 [] ch = "5" -> 5 [] ch = "6" -> 6 [] ch = "7" -> 7
      [] ch = "8" -> 8 [] ch = "9" -> 9

RECURSIVE LStrip(_)
LStrip(s) ==
    IF s # <<>> /\ Head(s) \in Whitespace THEN LStrip(Tail(s)) ELSE s

RECURSIVE RStrip(_)
RStrip(s) ==
    IF s # <<>> /\ s[Len(s)] \in Whitespace
    THEN RStrip(SubSeq(s, 1, Len(s) - 1))
    ELSE s

\* str.strip()
Strip(s) == RStrip(LStrip(s))

\* s[:i] for a 1-based position i: the characters before position i
Before(s, i) == SubSeq(s, 1, i - 1)

\* s[i+1:] for a 1-based position i: the characters after position i
After(s, i) == SubSeq(s, i + 1, Len(s))

\* [i for i, ch in enumerate(s) if ch == ','], as 1-based positions in order
RECURSIVE IdxsFrom(_, _)
IdxsFrom(s, i) ==
    IF i > Len(s) THEN <<>>
    ELSE IF s[i] = "," THEN <<i>> \o IdxsFrom(s, i + 1)
    ELSE IdxsFrom(s, i + 1)

CommaIdxs(s) == IdxsFrom(s, 1)

\* s.replace(',', '')
RemoveCommas(s) == SelectSeq(s, LAMBDA ch : ch # ",")

\* str.lower() on the letters float() reads
LowerCh(ch) ==
    CASE ch = "I" -> "i" [] ch = "N" -> "n" [] ch = "F" -> "f" [] ch = "A" -> "a"
      [] ch = "T" -> "t" [] ch = "Y" -> "y" [] OTHER -> ch

Lower(s) == [i \in 1..Len(s) |-> LowerCh(s[i])]

RECURSIVE DigitsToInt(_)
DigitsToInt(s) ==
    IF s = <<>> THEN 0
    ELSE 10 * DigitsToInt(SubSeq(s, 1, Len(s) - 1)) + DigitVal(s[Len(s)])

\* digits [. digits] with at least one digit
IsDecimal(b) ==
    /\ \A i \in 1..Len(b) : IsDigit(b[i]) \/ b[i] = "."
    /\ Cardinality({i \in 1..Len(b) : b[i] = "."}) <= 1
    /\ \E i \in 1..Len(b) : IsDigit(b[i])

\* number of digits after the decimal point of a decimal literal
FracDigits(b) ==
    IF \E i \in 1..Len(b) : b[i] = "."
    THEN Len(b) - (CHOOSE i \in 1..Len(b) : b[i] = ".")
    ELSE 0

(***************************************************************************)
(* Python's float(str): surrounding whitespace is ignored, then an optional*)
(* sign, then "inf", "infinity" or "nan" in any case, or a decimal literal.*)
(* Anything else raises ValueError.  (Exponents and digit-group underscores*)
(* need characters that no input of this model contains.)                  *)
(***************************************************************************)
PyFloat(s) ==
    LET t == Strip(s)
        signed == t # <<>> /\ Head(t) \in {"+", "-"}
        sgn == IF signed /\ Head(t) = "-" THEN -1 ELSE 1
        body == IF signed THEN Tail(t) ELSE t
        low == Lower(body)
    IN  IF low \in {<<"i", "n", "f">>, <<"i", "n", "f", "i", "n", "i", "t", "y">>}
        THEN Inf(sgn)
        ELSE IF low = <<"n", "a", "n">> THEN NaN
        ELSE IF IsDecimal(body)
        THEN Rat(sgn * DigitsToInt(SelectSeq(body, IsDigit)), Pow10(FracDigits(body)))
        ELSE ValueError

(***************************************************************************)
(* parse_amount                                                            *)
(***************************************************************************)
\* An argument: None, or a str.
NoneV == [tag |-> "None", s |-> <<>>]
StrV(s) == [tag |-> "str", s |-> s]

\* sum(1 for ch in s[:first] if ch.isdigit())
DigitsBefore(s, first) == Len(SelectSeq(Before(s, first), IsDigit))

\* ''.join(ch for ch in s[:first] if ch.isdigit() or ch in '+-.')
HeadOf(s, first) ==
    SelectSeq(Before(s, first), LAMBDA ch : IsDigit(ch) \/ ch \in {"+", "-", "."})

\* mutant: the threshold is one too high
TruncationApplies_M(s, first) == DigitsBefore(s, first) > 3

\* digits_before > 2
TruncationApplies(s, first) == DigitsBefore(s, first) > 2

\* mutant: with 3+ leading digits the comma is still read as a separator
TruncationBranch_M(s, first) == PyFloat(RemoveCommas(s))

\* return float(head) if head not in ('', '+', '-') else None
TruncationBranch(s, first) ==
    LET head == HeadOf(s, first)
    IN  IF head \notin {<<>>, <<"+">>, <<"-">>} THEN PyFloat(head) ELSE NoneF

\* mutant: the single comma is read as a decimal point
OneCommaBranch_M(s) == PyFloat([i \in 1..Len(s) |-> IF s[i] = "," THEN "." ELSE s[i]])

\* return float(s.replace(',', ''))
OneCommaBranch(s) == PyFloat(RemoveCommas(s))

\* mutant: every comma is removed and nothing is cut
TwoCommaBranch_M(s, comma_idxs) == PyFloat(RemoveCommas(s))

\* trimmed = s[:second]; drop its first comma; return float(trimmed)
TwoCommaBranch(s, comma_idxs) ==
    LET second == comma_idxs[2]
        trimmed == Before(s, second)
        firstInTrim == IF \E i \in 1..Len(trimmed) : trimmed[i] = ","
                       THEN CHOOSE i \in 1..Len(trimmed) :
                                /\ trimmed[i] = ","
                                /\ \A j \in 1..(i - 1) : trimmed[j] # ","
                       ELSE 0
    IN  IF firstInTrim # 0
        THEN PyFloat(Before(trimmed, firstInTrim) \o After(trimmed, firstInTrim))
        ELSE PyFloat(trimmed)

\* mutant: characters that are no digit, sign or point are dropped first
NoCommaBranch_M(s) ==
    PyFloat(SelectSeq(s, LAMBDA ch : IsDigit(ch) \/ ch \in {"+", "-", "."}))

\* if len(comma_idxs) == 0: return float(s)
NoCommaBranch(s) == PyFloat(s)

\* the body of the try block
TryBody(s) ==
    LET comma_idxs == CommaIdxs(s)
    IN  IF Len(comma_idxs) = 0 THEN NoCommaBranch(s)
        ELSE IF TruncationApplies(s, comma_idxs[1]) THEN TruncationBranch(s, comma_idxs[1])
        ELSE IF Len(comma_idxs) = 1 THEN OneCommaBranch(s)
        ELSE TwoCommaBranch(s, comma_idxs)

\* mutant: no handler, the exception escapes
ExceptValueError_M(r) == r

\* except ValueError: return None
ExceptValueError(r) == IF r.kind = "ValueError" THEN NoneF ELSE r

ParseAmount(v) ==
    IF v.tag = "None" THEN NoneF
    ELSE LET s == Strip(v.s)
         IN  IF s = <<>> THEN NoneF ELSE ExceptValueError(TryBody(s))

(***************************************************************************)
(* Inputs of parse_amount.                                                 *)
(***************************************************************************)
Alphabet == {"0", "1", "2", ",", ".", "-", "+", " ", "x"}

Groups ==
    { <<>>, <<"1">>, <<"1", "2">>, <<"1", "9", "0">>, <<"1", "2", "3", "4">>,
      <<"0", "0", "0">>, <<"4", "5">>, <<"-", "5">>, <<"1", ".", "5">>,
      <<"-", "1", "2", "0">>, <<"1", "2", ".", "5">>, <<"1", "x", "2", " ", "3">>,
      <<" ", "7">>, <<"x">> }

\* the groups gs joined by commas
RECURSIVE JoinWithCommas(_)
JoinWithCommas(gs) ==
    IF Len(gs) = 1 THEN gs[1]
    ELSE gs[1] \o <<",">> \o JoinWithCommas(Tail(gs))

Examples ==
    { <<"1", "9", "0", ",", "0", "0", "0">>,
      <<"9", ",", "9", "9", "0">>,
      <<"1", ",", "4", "0", "0", ",", "0", "0", "0">>,
      <<"1", "2", "3", "4", ",", "5", "6", "7", ",", "8", "9", "0">>,
      <<"1", "2", "3", ",", "4", "5">>,
      <<"n", "a", "n">>, <<"N", "a", "N">>, <<"-", "i", "n", "f">>,
      <<"I", "n", "f", "i", "n", "i", "t", "y">>, <<"i", "n", ",", "f">>,
      <<"\t", "1", "5", "0", "0", "\n">> }

\* v is an argument of the call: None, a string over Alphabet of up to
\* MaxLen characters, up to MaxGroups groups joined by commas, or an example
IsAmountInput(v) ==
    \/ v = NoneV
    \/ \E k \in 0..MaxLen : \E s \in [1..k -> Alphabet] : v = StrV(s)
    \/ \E n \in 2..MaxGroups : \E gs \in [1..n -> Groups] : v = StrV(JoinWithCommas(gs))
    \/ \E s \in Examples : v = StrV(s)

(***************************************************************************)
(* Specification of a call of parse_amount.                                *)
(***************************************************************************)
InitParseAmount ==
    /\ pc = "call"
    /\ IsAmountInput(value)
    /\ ret = NoneF
    /\ df = <<>>
    /\ d = <<>>
    /\ NoPipeline
    /\ NoOutputs
    /\ NoCleaner

CallParseAmount ==
    /\ pc = "call"
    /\ ret' = ParseAmount(value)
    /\ pc' = "return"
    /\ UNCHANGED <<value, df, d, pipelineVars, outputVars, cleanerVars>>

NextParseAmount == CallParseAmount

SpecParseAmount == InitParseAmount /\ [][NextParseAmount]_vars

(***************************************************************************)
(* Float arithmetic and comparisons used by the reconciler.                *)
(***************************************************************************)
\* Series.notna() on one value
NotNa(x) == x.kind \in {"num", "inf"}

\* x > c for an integer c; False for NaN and None
Gt(x, c) ==
    CASE x.kind = "num" ->
            \/ x.num \div x.den > c
            \/ (x.num \div x.den = c /\ x.num % x.den > 0)
      [] x.kind = "inf" -> x.num = 1
      [] OTHER -> FALSE

\* x <= c for an integer c; False for NaN and None
Le(x, c) ==
    CASE x.kind = "num" ->
            \/ x.num \div x.den < c
            \/ (x.num \div x.den = c /\ x.num % x.den = 0)
      [] x.kind = "inf" -> x.num = -1
      [] OTHER -> FALSE

\* x * y for y a positive number
Times(x, y) ==
    CASE x.kind = "num" -> Rat(x.num * y.num, x.den * y.den)
      [] x.kind = "inf" -> x
      [] OTHER -> NaN

\* x / y for x a number and y > 0
Over(x, y) ==
    CASE x.kind = "num" /\ y.kind = "num" -> Rat(x.num * y.den, x.den * y.num)
      [] x.kind = "num" /\ y.kind = "inf" -> Num(0)
      [] x.kind = "inf" /\ y.kind = "num" -> x
      [] OTHER -> NaN

EXCHANGE_RATE == Rat(38, 10)

(***************************************************************************)
(* String operations of the reconciler.                                    *)
(***************************************************************************)
PEN_MARKER == <<"S", "/">>
USD_MARKER == <<"U", "S", "D">>
SEPARATOR == <<" ", "·", " ">>

StartsWith(s, sub) == Len(s) >= Len(sub) /\ SubSeq(s, 1, Len(sub)) = sub

\* first position at which sub occurs in s, 0 when it does not
RECURSIVE FindFrom(_, _, _)
FindFrom(s, sub, i) ==
    IF i + Len(sub) - 1 > Len(s) THEN 0
    ELSE IF SubSeq(s, i, i + Len(sub) - 1) = sub THEN i
    ELSE FindFrom(s, sub, i + 1)

\* Series.str.contains(sub) on one value
Contains(s, sub) == FindFrom(s, sub, 1) # 0

\* Series.str.split(sep).str[0] on one value
FirstSegment(s, sep) ==
    IF Contains(s, sep) THEN Before(s, FindFrom(s, sep, 1)) ELSE s

\* Series.str.replace(sub, "", regex=False) on one value
RECURSIVE Remove(_, _)
Remove(s, sub) ==
    IF Len(s) < Len(sub) THEN s
    ELSE IF StartsWith(s, sub) THEN Remove(SubSeq(s, Len(sub) + 1, Len(s)), sub)
    ELSE <<Head(s)>> \o Remove(Tail(s), sub)

\* A price_raw cell: a str, None or NaN.  Series.astype(str) on one value.
NaNV == [tag |-> "NaN", s |-> <<>>]

AsTypeStr(v) ==
    CASE v.tag = "None" -> <<"N", "o", "n", "e">>
      [] v.tag = "NaN" -> <<"n", "a", "n">>
      [] v.tag = "NA" -> <<"<", "N", "A", ">">>
      [] OTHER -> v.s

(***************************************************************************)
(* apply_notebook_cleaning_rules, row by row.  A row is a record           *)
(* [idx, price_raw, currency, price_numeric, area_numeric, price_per_sqm]; *)
(* idx is its label in the DataFrame's index and currency is "NA" when     *)
(* missing.                                                                *)
(***************************************************************************)
\* pr = d.get("price_raw").astype(str).fillna("")
Pr(row) == AsTypeStr(row.price_raw)

\* mutant: the USD marker wins over the PEN marker
InferredCurrency_M(row) ==
    IF Contains(Pr(row), USD_MARKER) THEN "USD"
    ELSE IF Contains(Pr(row), PEN_MARKER) THEN "PEN"
    ELSE row.currency

\* pen_mask, usd_mask and the two assignments of currency
InferredCurrency(row) ==
    LET pen_mask == Contains(Pr(row), PEN_MARKER)
        usd_mask == Contains(Pr(row), USD_MARKER) /\ ~pen_mask
        c1 == IF pen_mask THEN "PEN" ELSE row.currency
    IN  IF usd_mask THEN "USD" ELSE c1

\* first_seg, then cleaned
Cleaned(row) ==
    Strip(Remove(Remove(FirstSegment(Pr(row), SEPARATOR), PEN_MARKER), USD_MARKER))

\* mutant: a row whose price_raw does not parse keeps the price it carried
ParsedPrice_M(row) ==
    IF NotNa(ParseAmount(StrV(Cleaned(row))))
    THEN ParseAmount(StrV(Cleaned(row)))
    ELSE row.price_numeric

\* d["price_numeric"] = cleaned.apply(parse_amount)
ParsedPrice(row) == ParseAmount(StrV(Cleaned(row)))

\* mutant: only rows with the USD marker in price_raw are converted
UsdFinal_M(row) ==
    /\ Contains(Pr(row), USD_MARKER) /\ ~Contains(Pr(row), PEN_MARKER)
    /\ NotNa(row.price_numeric)

\* usd_final
UsdFinal(row) == row.currency = "USD" /\ NotNa(row.price_numeric)

\* the conversion of usd_final rows, then currency = "PEN" for all rows
ConvertedRow(row) ==
    [row EXCEPT !.price_numeric = IF UsdFinal(row)
                                  THEN Times(row.price_numeric, EXCHANGE_RATE)
                                  ELSE row.price_numeric,
                !.currency = "PEN"]

\* mutant: the lower bound is inclusive
InPriceRange_M(row) ==
    (Gt(row.price_numeric, MIN_PRICE) \/ row.price_numeric = Num(MIN_PRICE))
    /\ Le(row.price_numeric, MAX_PRICE)

\* (price_numeric > MIN_PRICE) & (price_numeric <= MAX_PRICE)
InPriceRange(row) ==
    Gt(row.price_numeric, MIN_PRICE) /\ Le(row.price_numeric, MAX_PRICE)

\* mutant: the quotient is taken the other way round
WithPricePerSqm_M(row) ==
    IF Gt(row.area_numeric, 0)
    THEN [row EXCEPT !.price_per_sqm = Over(row.area_numeric, row.price_numeric)]
    ELSE row

\* d.loc[valid, "price_per_sqm"] = price[valid] / area[valid]
WithPricePerSqm(row) ==
    IF Gt(row.area_numeric, 0)
    THEN [row EXCEPT !.price_per_sqm = Over(row.price_numeric, row.area_numeric)]
    ELSE row

(***************************************************************************)
(* Input datasets of the reconciler.                                       *)
(***************************************************************************)
Prefixes == { <<>>, <<"S", "/", " ">>, <<"U", "S", "D", " ">>,
              <<"U", "S", "D", " ", "S", "/", " ">> }

Amounts ==
    { <<"1", "0">>, <<"1", "0", ".", "5">>, <<"3">>,
      <<"9", "0", "0", "0", "0">>, <<"9", "0", ",", "0", "0", "1">>,
      <<"2", "3", ",", "6", "8", "4">>, <<"2", "3", ",", "6", "8", "5">>,
      <<"1", ",", "4", "0", "0", ",", "0", "0", "0">>,
      <<"9", ",", "9", "9", "0">>, <<"1", "9", "0", ",", "0", "0", "0">>,
      <<"x">>, <<>>, <<"i", "n", "f">>, <<"-", "5", "0">> }

Suffixes == { <<>>, <<" ", "·", " ", "S", "/", " ", "2", "0">>,
              <<" ", "·", " ", "U", "S", "D", " ", "2", "0">> }

PriceRaws ==
    {NoneV, NaNV} \cup {StrV(p \o a \o x) : p \in Prefixes, a \in Amounts, x \in Suffixes}

Currencies == {"NA", "PEN", "USD"}

\* what a row carries in price_numeric, area_numeric and price_per_sqm
Carried ==
    { <<NaN, NaN, NaN>>, <<Num(500), Num(50), Num(7)>>,
      <<Num(500), Num(0), Num(7)>>, <<NaN, Num(4), NaN>> }

MkRow(p, c, k) ==
    [price_raw |-> p, currency |-> c, price_numeric |-> k[1],
     area_numeric |-> k[2], price_per_sqm |-> k[3]]

AllRows == {MkRow(p, c, k) : p \in PriceRaws, c \in Currencies, k \in Carried}

\* the rows that fill a dataset around the one row drawn from AllRows
OtherRows ==
    { MkRow(StrV(<<"S", "/", " ", "9", ",", "9", "9", "0">>), "NA", <<NaN, Num(50), NaN>>),
      MkRow(StrV(<<"U", "S", "D", " ", "5", "0", "0">>), "NA", <<NaN, NaN, NaN>>),
      MkRow(StrV(<<"S", "/", " ", "5">>), "PEN", <<Num(5), Num(50), Num(7)>>) }

InsertAt(c, k, r) == SubSeq(c, 1, k - 1) \o <<r>> \o SubSeq(c, k, Len(c))

\* the DataFrame of the rows, labelled 1, 2, ... (a RangeIndex)
Labelled(rows) ==
    [i \in 1..Len(rows) |->
        [idx |-> i, price_raw |-> rows[i].price_raw, currency |-> rows[i].currency,
         price_numeric |-> rows[i].price_numeric, area_numeric |-> rows[i].area_numeric,
         price_per_sqm |-> rows[i].price_per_sqm]]

\* x is an input dataset: empty, or up to MaxRows rows of which one is any row
\* of AllRows and the others are rows of OtherRows
IsDataset(x) ==
    \/ x = <<>>
    \/ \E r \in AllRows : \E n \in 0..(MaxRows - 1) :
          \E c \in [1..n -> OtherRows] : \E k \in 1..(n + 1) :
              x = Labelled(InsertAt(c, k, r))

(***************************************************************************)
(* Specification of a call of apply_notebook_cleaning_rules: one action    *)
(* per statement group, in program order.                                  *)
(***************************************************************************)
\* mutant: d is df itself, so an assignment to a column of d is one to df
InputAfterCleaning_M(input, working) == working

\* the caller's dataset after an assignment to a column of d: d is df.copy(),
\* another object, so the dataset passed in is as it was
InputAfterCleaning(input, working) == input

\* what apply_notebook_cleaning_rules returns for the rows of df
ApplyNotebookCleaningRules(rows) ==
    LET inferred == [i \in 1..Len(rows) |->
                        [rows[i] EXCEPT !.currency = InferredCurrency(rows[i])]]
        parsed == [i \in 1..Len(rows) |->
                        [inferred[i] EXCEPT !.price_numeric = ParsedPrice(inferred[i])]]
        converted == [i \in 1..Len(rows) |-> ConvertedRow(parsed[i])]
        filtered == SelectSeq(converted, InPriceRange)
    IN  [i \in 1..Len(filtered) |-> WithPricePerSqm(filtered[i])]

InitReconcile ==
    /\ pc = "start"
    /\ IsDataset(df)
    /\ d = <<>>
    /\ value = NoneV
    /\ ret = NoneF
    /\ NoPipeline
    /\ NoOutputs
    /\ NoCleaner

\* d = df.copy(); infer currency from price_raw
InferCurrency ==
    /\ pc = "start"
    /\ d' = [i \in 1..Len(df) |-> [df[i] EXCEPT !.currency = InferredCurrency(df[i])]]
    /\ df' = InputAfterCleaning(df, d')
    /\ pc' = "inferred"
    /\ UNCHANGED <<value, ret, pipelineVars, outputVars, cleanerVars>>

\* compute price_numeric from the first segment of price_raw
ComputePriceNumeric ==
    /\ pc = "inferred"
    /\ d' = [i \in 1..Len(d) |-> [d[i] EXCEPT !.price_numeric = ParsedPrice(d[i])]]
    /\ pc' = "parsed"
    /\ UNCHANGED <<df, value, ret, pipelineVars, outputVars, cleanerVars>>

\* convert USD prices, then set currency to PEN for all rows
ConvertUSD ==
    /\ pc = "parsed"
    /\ d' = [i \in 1..Len(d) |-> ConvertedRow(d[i])]
    /\ pc' = "converted"
    /\ UNCHANGED <<df, value, ret, pipelineVars, outputVars, cleanerVars>>

\* filter the price range
FilterPriceRange ==
    /\ pc = "converted"
    /\ d' = SelectSeq(d, InPriceRange)
    /\ pc' = "filtered"
    /\ UNCHANGED <<df, value, ret, pipelineVars, outputVars, cleanerVars>>

\* recompute price_per_sqm where area_numeric > 0; return d
RecomputePricePerSqm ==
    /\ pc = "filtered"
    /\ d' = [i \in 1..Len(d) |-> WithPricePerSqm(d[i])]
    /\ pc' = "done"
    /\ UNCHANGED <<df, value, ret, pipelineVars, outputVars, cleanerVars>>

NextReconcile ==
    \/ InferCurrency
    \/ ComputePriceNumeric
    \/ ConvertUSD
    \/ FilterPriceRange
    \/ RecomputePricePerSqm

SpecReconcile == InitReconcile /\ [][NextReconcile]_vars

(***************************************************************************)
(* deduplicate_df.  A DataFrame is the sequence of its rows together with  *)
(* the sequence of its column labels; a row is a function from the column  *)
(* labels and "idx" (its label in the index) to cells.  A cell of a        *)
(* numeric column is a float record; any other cell is [tag, s]: a str     *)
(* (StrV), None, NaN, pd.NA, a list or a tuple.  A timestamp is a str of   *)
(* digits; an image URL is represented by its rank in string order.        *)
(***************************************************************************)
NAV == [tag |-> "NA", s |-> <<>>]
ListV(s) == [tag |-> "list", s |-> s]
TupleV(s) == [tag |-> "tuple", s |-> s]

\* pd.isna() on one cell
IsNull(v) ==
    IF "kind" \in DOMAIN v THEN v.kind \in {"nan", "none"}
    ELSE v.tag \in {"None", "NaN", "NA"}

\* c in df.columns
HasColumn(cols, c) == \E i \in 1..Len(cols) : cols[i] = c

\* sorted(S) for a set S
RECURSIVE SortedSeq(_)
SortedSeq(S) ==
    IF S = {} THEN <<>>
    ELSE LET m == CHOOSE x \in S : \A y \in S : x <= y
         IN  <<m>> \o SortedSeq(S \ {m})

\* lambda x: tuple(sorted(set(x))) if isinstance(x, list) else x
CanonicalImageUrls(x) ==
    IF x.tag = "list" THEN TupleV(SortedSeq({x.s[i] : i \in 1..Len(x.s)})) ELSE x

\* dfc = df.copy(), with image_urls canonicalised when the column exists
Canonicalized(rows, cols) ==
    IF HasColumn(cols, "image_urls")
    THEN [i \in 1..Len(rows) |->
            [rows[i] EXCEPT !.image_urls = CanonicalImageUrls(rows[i].image_urls)]]
    ELSE rows

\* s < t for two timestamps (str comparison, on digits)
RECURSIVE LexLess(_, _)
LexLess(s, t) ==
    IF t = <<>> THEN FALSE
    ELSE IF s = <<>> THEN TRUE
    ELSE IF Head(s) = Head(t) THEN LexLess(Tail(s), Tail(t))
    ELSE DigitVal(Head(s)) < DigitVal(Head(t))

\* sort_values(by=["scraped_at"], na_position="last") must put a before b
SortsBefore(a, b) ==
    /\ ~IsNull(a.scraped_at)
    /\ IsNull(b.scraped_at) \/ LexLess(a.scraped_at.s, b.scraped_at.s)

IsSortedByScrapedAt(rows) ==
    \A i, j \in 1..Len(rows) : i < j => ~SortsBefore(rows[j], rows[i])

Orderings(n) == {p \in [1..n -> 1..n] : \A i, j \in 1..n : i # j => p[i] # p[j]}

\* mutant: rows with an unknown timestamp are sorted first
SortValues_M(rows) ==
    { [i \in 1..Len(rows) |-> rows[p[i]]] : p \in
        { q \in Orderings(Len(rows)) :
            \A i, j \in 1..Len(rows) :
                i < j => \/ IsNull(rows[q[i]].scraped_at)
                         \/ ~IsNull(rows[q[j]].scraped_at)
                            /\ ~LexLess(rows[q[j]].scraped_at.s, rows[q[i]].scraped_at.s) } }

\* the results sort_values may give: the default quicksort orders rows with
\* equal (or unknown) timestamps in no guaranteed way
SortValues(rows) ==
    { [i \in 1..Len(rows) |-> rows[p[i]]] : p \in
        { q \in Orderings(Len(rows)) :
            IsSortedByScrapedAt([i \in 1..Len(rows) |-> rows[q[i]]]) } }

HTTP == <<"h", "t", "t", "p">>

\* has_url
HasUrl(row) ==
    /\ ~IsNull(row.url)
    /\ Len(AsTypeStr(row.url)) > 3
    /\ StartsWith(AsTypeStr(row.url), HTTP)

\* dfc.loc[has_url] and dfc.loc[~has_url]
WithUrl(rows) == SelectSeq(rows, HasUrl)
NoUrl(rows) == SelectSeq(rows, LAMBDA r : ~HasUrl(r))

\* mutant: the rows at the positions I, the last of them first
Pick_M(rows, I, i) ==
    LET S == {j \in i..Len(rows) : j \in I}
    IN  [k \in 1..Cardinality(S) |->
            rows[CHOOSE j \in S : Cardinality({m \in S : m >= j}) = k]]

\* the rows at the positions I, in order
RECURSIVE Pick(_, _, _)
Pick(rows, I, i) ==
    IF i > Len(rows) THEN <<>>
    ELSE (IF i \in I THEN <<rows[i]>> ELSE <<>>) \o Pick(rows, I, i + 1)

\* mutant: keep="last"
KeepFirst_M(rows, keys) ==
    Pick(rows, {i \in 1..Len(rows) : ~\E j \in (i + 1)..Len(rows) : keys[j] = keys[i]}, 1)

\* drop_duplicates(subset=..., keep="first"), given the key of every row
KeepFirst(rows, keys) ==
    Pick(rows, {i \in 1..Len(rows) : ~\E j \in 1..(i - 1) : keys[j] = keys[i]}, 1)

\* mutant: the rows with a URL are deduplicated by their title
DropDuplicateUrls_M(rows) == KeepFirst(rows, [i \in 1..Len(rows) |-> rows[i].title])

\* df_with_url.drop_duplicates(subset=["url"], keep="first")
DropDuplicateUrls(rows) == KeepFirst(rows, [i \in 1..Len(rows) |-> rows[i].url])

\* str.replace("\s+", " ", regex=True) on one value
RECURSIVE CollapseWhitespace(_)
CollapseWhitespace(s) ==
    IF s = <<>> THEN <<>>
    ELSE IF Head(s) \in Whitespace
         THEN IF Len(s) > 1 /\ s[2] \in Whitespace
              THEN CollapseWhitespace(Tail(s))
              ELSE <<" ">> \o CollapseWhitespace(Tail(s))
         ELSE <<Head(s)>> \o CollapseWhitespace(Tail(s))

\* _ft_norm
FtNorm(row) == Strip(CollapseWhitespace(AsTypeStr(row.full_text)))

\* the full-text pass, made when the frame has a full_text column
DropDuplicateTexts(rows, cols) ==
    IF HasColumn(cols, "full_text")
    THEN KeepFirst(rows, [i \in 1..Len(rows) |-> FtNorm(rows[i])])
    ELSE rows

KEY_COLUMNS ==
    <<"title", "location", "property_type", "price_numeric",
      "area_numeric", "bedrooms", "bathrooms">>

\* mutant: the key is the title, the location and the property type only
KeyCols_M(cols) ==
    SelectSeq(<<"title", "location", "property_type">>, LAMBDA c : HasColumn(cols, c))

\* key_cols
KeyCols(cols) == SelectSeq(KEY_COLUMNS, LAMBDA c : HasColumn(cols, c))

\* the value of a row on key_cols; drop_duplicates takes all nulls for equal
CompositeKey(row, cols) ==
    [k \in 1..Len(KeyCols(cols)) |->
        IF IsNull(row[KeyCols(cols)[k]]) THEN NaNV ELSE row[KeyCols(cols)[k]]]

\* mutant: a row is dropped only when the row right before it has its key
DropDuplicateKeys_M(rows, cols) ==
    IF KeyCols(cols) # <<>>
    THEN Pick(rows, {i \in 1..Len(rows) :
                        i = 1 \/ CompositeKey(rows[i - 1], cols) # CompositeKey(rows[i], cols)}, 1)
    ELSE rows

\* the composite-key pass, made when key_cols is not empty
DropDuplicateKeys(rows, cols) ==
    IF KeyCols(cols) # <<>>
    THEN KeepFirst(rows, [i \in 1..Len(rows) |-> CompositeKey(rows[i], cols)])
    ELSE rows

\* pd.concat([a, b], ignore_index=True): the rows are labelled anew
Concat(a, b) == [i \in 1..Len(a \o b) |-> [(a \o b)[i] EXCEPT !.idx = i]]

\* the else branch: a frame with no url column
WithoutUrlColumn(rows, cols) ==
    IF HasColumn(cols, "full_text")
    THEN KeepFirst(rows, [i \in 1..Len(rows) |-> FtNorm(rows[i])])
    ELSE DropDuplicateKeys(rows, cols)

\* what deduplicate_df returns once dfc is sorted
Deduplicated(sorted, cols) ==
    IF HasColumn(cols, "url")
    THEN Concat(DropDuplicateUrls(WithUrl(sorted)),
                DropDuplicateKeys(DropDuplicateTexts(NoUrl(sorted), cols), cols))
    ELSE WithoutUrlColumn(sorted, cols)

\* the results deduplicate_df may give
DeduplicateDf(rows, cols) ==
    {Deduplicated(sorted, cols) : sorted \in SortValues(Canonicalized(rows, cols))}

(***************************************************************************)
(* Input datasets of deduplicate_df.                                       *)
(***************************************************************************)
\* the column labels deduplicate_df reads, in the order of preferred_order
DedupColumns ==
    <<"scraped_at", "title", "url", "location", "property_type", "price_numeric",
      "area_numeric", "bedrooms", "bathrooms", "image_urls", "full_text">>

Without(cols, S) == SelectSeq(cols, LAMBDA c : c \notin S)

\* the frames deduplicate_df is called with have all, or some, of these columns
ColumnSets ==
    { DedupColumns,
      Without(DedupColumns, {"url"}),
      Without(DedupColumns, {"full_text", "image_urls"}),
      Without(DedupColumns, {"url", "full_text"}),
      <<"scraped_at", "image_urls">> }

UrlA == StrV(<<"h", "t", "t", "p", ":", "/", "/", "a">>)
UrlB == StrV(<<"h", "t", "t", "p", ":", "/", "/", "b">>)
UrlUnusable == StrV(<<"w", "w", "w", ".", "a">>)

TextXY == StrV(<<"x", " ", "y">>)
TextXYSpaced == StrV(<<" ", "x", " ", "\t", "y", "\n">>)
TextZ == StrV(<<"z">>)
TextNone == StrV(<<"N", "o", "n", "e">>)

KeyA ==
    [title |-> StrV(<<"T">>), location |-> StrV(<<"L">>), property_type |-> StrV(<<"P">>),
     price_numeric |-> Num(1000), area_numeric |-> Num(50),
     bedrooms |-> Num(2), bathrooms |-> Num(1)]
KeyB == [KeyA EXCEPT !.bedrooms = Num(3)]
KeyNull ==
    [title |-> NoneV, location |-> NaNV, property_type |-> NoneV,
     price_numeric |-> NaN, area_numeric |-> NaN, bedrooms |-> NaN, bathrooms |-> NaN]

\* the listings of the inputs: url, full_text, the key fields and image_urls
Listings ==
    << <<UrlA, TextXY, KeyA, ListV(<<2, 1, 2>>)>>,
       <<UrlA, TextZ, KeyB, NoneV>>,
       <<UrlB, TextXY, KeyA, ListV(<<1, 2>>)>>,
       <<UrlUnusable, TextXY, KeyA, ListV(<<2, 1, 2>>)>>,
       <<NoneV, TextXYSpaced, KeyB, NoneV>>,
       <<NoneV, TextZ, KeyA, NaNV>>,
       <<NoneV, NoneV, KeyNull, NoneV>>,
       <<NoneV, TextNone, KeyB, NoneV>>,
       <<NaNV, NaNV, KeyNull, NaNV>> >>

Timestamps == <<StrV(<<"1">>), StrV(<<"2">>), NaNV>>

\* the rows of the pool: a listing and the timestamp it was scraped at
Pool ==
    << <<1, 1>>, <<1, 2>>, <<1, 3>>, <<2, 1>>, <<2, 2>>, <<3, 1>>,
       <<4, 1>>, <<4, 2>>, <<5, 1>>, <<5, 3>>, <<6, 1>>,
       <<7, 1>>, <<7, 3>>, <<8, 1>>, <<9, 2>> >>

PoolRow(n) ==
    LET l == Listings[Pool[n][1]]
    IN  [scraped_at |-> Timestamps[Pool[n][2]],
         url |-> l[1], full_text |-> l[2], image_urls |-> l[4],
         title |-> l[3].title, location |-> l[3].location,
         property_type |-> l[3].property_type, price_numeric |-> l[3].price_numeric,
         area_numeric |-> l[3].area_numeric, bedrooms |-> l[3].bedrooms,
         bathrooms |-> l[3].bathrooms]

PoolSize == Len(Pool)

\* the row of a frame with the columns cols, labelled i
FrameRow(row, cols, i) ==
    [c \in {cols[k] : k \in 1..Len(cols)} \cup {"idx"} |-> IF c = "idx" THEN i ELSE row[c]]

\* x is an input dataset: up to MaxDedupRows rows of the pool.  The result of
\* deduplicate_df does not depend on the order of the input rows (the sort
\* decides it), so the rows are taken in the order of the pool.
IsDedupInput(x, cols) ==
    \E n \in 0..MaxDedupRows : \E c \in [1..n -> 1..PoolSize] :
        /\ \A i \in 1..(n - 1) : c[i] <= c[i + 1]
        /\ x = [i \in 1..n |-> FrameRow(PoolRow(c[i]), cols, i)]

(***************************************************************************)
(* Specification of a call of deduplicate_df, one action per statement     *)
(* group, followed by a second call on the result.                         *)
(***************************************************************************)
\* mutant: dfc is df itself, so the tuples are written into the caller's dataset
InputAfterDedup_M(input, working) == working

\* the caller's dataset after image_urls is canonicalised in dfc: dfc is
\* df.copy(), another object, so the dataset passed in is as it was
InputAfterDedup(input, working) == input

InitDedup ==
    /\ pc = "dedup"
    /\ columns \in ColumnSets
    /\ IsDedupInput(df, columns)
    /\ value = NoneV
    /\ ret = <<>>
    /\ d = <<>>
    /\ records = <<>>
    /\ dfc = <<>>
    /\ df_with_url = <<>>
    /\ df_no_url = <<>>
    /\ again = <<>>
    /\ NoOutputs
    /\ NoCleaner

\* dfc = df.copy(); canonicalise image_urls
CanonicalizeImageUrls ==
    /\ pc = "dedup"
    /\ dfc' = Canonicalized(df, columns)
    /\ df' = InputAfterDedup(df, dfc')
    /\ pc' = "canonical"
    /\ UNCHANGED <<value, ret, d, records, columns, df_with_url, df_no_url, again, outputVars, cleanerVars>>

\* dfc = dfc.sort_values(by=["scraped_at"], na_position="last")
SortByScrapedAt ==
    /\ pc = "canonical"
    /\ dfc' \in SortValues(dfc)
    /\ pc' = "sorted"
    /\ UNCHANGED <<value, ret, df, d, records, columns, df_with_url, df_no_url, again, outputVars, cleanerVars>>

\* split by has_url; dedup the rows that have a real URL
SplitByUrl ==
    /\ pc = "sorted"
    /\ HasColumn(columns, "url")
    /\ df_with_url' = DropDuplicateUrls(WithUrl(dfc))
    /\ df_no_url' = NoUrl(dfc)
    /\ pc' = "split"
    /\ UNCHANGED <<value, ret, df, d, records, columns, dfc, again, outputVars, cleanerVars>>

\* dedup the rows without URL by normalized full_text
FullTextPass ==
    /\ pc = "split"
    /\ df_no_url' = DropDuplicateTexts(df_no_url, columns)
    /\ pc' = "texts"
    /\ UNCHANGED <<value, ret, df, d, records, columns, dfc, df_with_url, again, outputVars, cleanerVars>>

\* dedup the rows without URL by the composite key
CompositeKeyPass ==
    /\ pc = "texts"
    /\ df_no_url' = DropDuplicateKeys(df_no_url, columns)
    /\ pc' = "keys"
    /\ UNCHANGED <<value, ret, df, d, records, columns, dfc, df_with_url, again, outputVars, cleanerVars>>

\* dfc = pd.concat([df_with_url, df_no_url], ignore_index=True); return dfc
ConcatParts ==
    /\ pc = "keys"
    /\ ret' = Concat(df_with_url, df_no_url)
    /\ pc' = "returned"
    /\ UNCHANGED <<value, df, d, records, columns, dfc, df_with_url, df_no_url, again, outputVars, cleanerVars>>

\* no url column: dedup by full_text, or else by the composite key; return dfc
DedupWithoutUrlColumn ==
    /\ pc = "sorted"
    /\ ~HasColumn(columns, "url")
    /\ ret' = WithoutUrlColumn(dfc, columns)
    /\ pc' = "returned"
    /\ UNCHANGED <<value, df, d, records, columns, dfc, df_with_url, df_no_url, again, outputVars, cleanerVars>>

\* deduplicate_df(deduplicate_df(df))
DedupAgain ==
    /\ pc = "returned"
    /\ again' \in DeduplicateDf(ret, columns)
    /\ pc' = "again"
    /\ UNCHANGED <<value, ret, df, d, records, columns, dfc, df_with_url, df_no_url, outputVars, cleanerVars>>

NextDedup ==
    \/ CanonicalizeImageUrls
    \/ SortByScrapedAt
    \/ SplitByUrl
    \/ FullTextPass
    \/ CompositeKeyPass
    \/ ConcatParts
    \/ DedupWithoutUrlColumn
    \/ DedupAgain

SpecDedup == InitDedup /\ [][NextDedup]_vars

(***************************************************************************)
(* normalize_records.  A record is a dict: the sequence of its             *)
(* <<key, value>> pairs, in insertion order.  A value is [tag, s]: a str,  *)
(* None, a number (s is the float), a bool, a list or a dict (s is the     *)
(* sequence of its pairs).  The frame built is [cols, rows].               *)
(***************************************************************************)
NumV(x) == [tag |-> "num", s |-> x]
BoolV(b) == [tag |-> "bool", s |-> b]
DictV(pairs) == [tag |-> "dict", s |-> pairs]

preferred_order ==
    <<"index", "global_index", "scraped_at", "title", "url",
      "location", "has_location", "district", "property_type",
      "price_raw", "price_numeric", "currency", "has_price", "price_per_sqm",
      "area_raw", "area_numeric", "bedrooms", "bathrooms",
      "has_parking", "parking_count", "has_pool", "has_garden", "has_balcony",
      "has_elevator", "has_security", "has_gym", "is_furnished", "allows_pets",
      "is_new", "has_terrace", "has_laundry", "has_air_conditioning",
      "image_count", "image_urls", "page", "site_page", "element_class", "element_tag",
      "data_completeness", "feature_count", "full_text">>

numeric_cols ==
    {"index", "global_index", "price_numeric", "price_per_sqm", "area_numeric",
     "bedrooms", "bathrooms", "parking_count", "image_count", "page", "site_page",
     "data_completeness", "feature_count"}

bool_cols ==
    {"has_location", "has_price", "has_parking", "has_pool", "has_garden",
     "has_balcony", "has_elevator", "has_security", "has_gym", "is_furnished",
     "allows_pets", "is_new", "has_terrace", "has_laundry", "has_air_conditioning"}

Labels(cols) == {cols[k] : k \in 1..Len(cols)}

\* the column label json_normalize gives the key sub of a dict under the key k
Dotted(k, sub) ==
    CASE k = "meta" /\ sub = "source" -> "meta.source"
      [] k = "location" /\ sub = "district" -> "location.district"

\* nested_to_record(record, max_level=1): dict values are flattened one level
RECURSIVE Flattened(_)
Flattened(rec) ==
    IF rec = <<>> THEN <<>>
    ELSE (IF Head(rec)[2].tag = "dict"
          THEN [i \in 1..Len(Head(rec)[2].s) |->
                    <<Dotted(Head(rec)[1], Head(rec)[2].s[i][1]), Head(rec)[2].s[i][2]>>]
          ELSE <<Head(rec)>>)
         \o Flattened(Tail(rec))

HasKey(rec, k) == \E i \in 1..Len(rec) : rec[i][1] = k
ValueOf(rec, k) == rec[CHOOSE i \in 1..Len(rec) : rec[i][1] = k][2]

\* the columns of DataFrame(list of dicts): the keys, in order of first appearance
RECURSIVE UnionOfKeys(_, _)
UnionOfKeys(recs, acc) ==
    IF recs = <<>> THEN acc
    ELSE UnionOfKeys(Tail(recs),
            acc \o SelectSeq([i \in 1..Len(Head(recs)) |-> Head(recs)[i][1]],
                             LAMBDA k : ~HasColumn(acc, k)))

\* df = pd.json_normalize(records, max_level=1): a key a record lacks is NaN
JsonNormalize(recs) ==
    LET flat == [i \in 1..Len(recs) |-> Flattened(recs[i])]
        cols == UnionOfKeys(flat, <<>>)
    IN  [cols |-> cols,
         rows |-> [i \in 1..Len(recs) |->
                    [c \in Labels(cols) \cup {"idx"} |->
                        IF c = "idx" THEN i
                        ELSE IF HasKey(flat[i], c) THEN ValueOf(flat[i], c) ELSE NaNV]]]

\* for col in preferred_order: if col not in df.columns: df[col] = pd.NA
EnsureColumns(frame) ==
    LET cols == frame.cols \o SelectSeq(preferred_order, LAMBDA c : ~HasColumn(frame.cols, c))
    IN  [cols |-> cols,
         rows |-> [i \in 1..Len(frame.rows) |->
                    [c \in Labels(cols) \cup {"idx"} |->
                        IF c \in DOMAIN frame.rows[i] THEN frame.rows[i][c] ELSE NAV]]]

\* mutant: the columns are left as they are
Reordered_M(frame) == frame

\* df = df[preferred_order]
Reordered(frame) ==
    [cols |-> preferred_order,
     rows |-> [i \in 1..Len(frame.rows) |->
                [c \in Labels(preferred_order) \cup {"idx"} |-> frame.rows[i][c]]]]

\* pd.to_numeric(errors="coerce") on one value
ToNumeric(v) ==
    CASE v.tag = "num" -> v.s
      [] v.tag = "str" -> IF PyFloat(v.s).kind \in {"num", "inf"} THEN PyFloat(v.s) ELSE NaN
      [] v.tag \in {"None", "NaN", "NA"} -> NaN

\* astype("boolean") on one value
AsBoolean(v) ==
    CASE v.tag = "bool" -> v
      [] v.tag \in {"None", "NaN", "NA"} -> NAV

\* the currency of a row as the reconciler's rows hold it
CurrencyOf(v) ==
    CASE v.tag \in {"None", "NaN", "NA"} -> "NA"
      [] v = StrV(<<"P", "E", "N">>) -> "PEN"
      [] v = StrV(<<"U", "S", "D">>) -> "USD"

\* the coercion of the numeric and the boolean columns
Coerced(frame) ==
    [cols |-> frame.cols,
     rows |-> [i \in 1..Len(frame.rows) |->
                [c \in DOMAIN frame.rows[i] |->
                    IF c \in numeric_cols THEN ToNumeric(frame.rows[i][c])
                    ELSE IF c \in bool_cols THEN AsBoolean(frame.rows[i][c])
                    ELSE IF c = "currency" THEN CurrencyOf(frame.rows[i][c])
                    ELSE frame.rows[i][c]]]]

NormalizeRecords(recs) == Coerced(Reordered(EnsureColumns(JsonNormalize(recs))))

(***************************************************************************)
(* basic_analysis.  The report is a record; each of its dicts is a         *)
(* function from the column labels it holds.  describe() is modelled by    *)
(* its count, mean, min, quartiles and max; its std, a square root, has no *)
(* exact rational value and is left out.                                  *)
(***************************************************************************)
\* x + y, x - y, x * y and x < y for numbers
Plus(x, y) == Rat(x.num * y.den + y.num * x.den, x.den * y.den)
Minus(x, y) == Rat(x.num * y.den - y.num * x.den, x.den * y.den)
Mul(x, y) == Rat(x.num * y.num, x.den * y.den)
Lt(x, y) == x.num * y.den < y.num * x.den

\* pd.isna() on the cell of the column c (a currency is held as a string)
IsNaCell(c, v) == IF c = "currency" THEN v = "NA" ELSE IsNull(v)

\* df[c].dropna(): the values of the column that are not null, in row order
DropNa(rows, c) ==
    SelectSeq([i \in 1..Len(rows) |-> rows[i][c]], LAMBDA v : ~IsNaCell(c, v))

\* int(df[c].isna().sum())
NullCount(rows, c) == Cardinality({i \in 1..Len(rows) : IsNaCell(c, rows[i][c])})

\* the values of s in ascending order
Ascending(s) ==
    [k \in 1..Len(s) |->
        s[CHOOSE i \in 1..Len(s) :
            Cardinality({j \in 1..Len(s) : Lt(s[j], s[i]) \/ (s[j] = s[i] /\ j < i)}) = k - 1]]

\* s.quantile(qn/qd) of a series with no null, by linear interpolation between
\* the two order statistics around the position (len(s) - 1) * q
Quantile(s, qn, qd) ==
    LET a == Ascending(s)
        lo == ((Len(s) - 1) * qn) \div qd
        frac == Rat(((Len(s) - 1) * qn) % qd, qd)
    IN  IF lo + 2 <= Len(s)
        THEN Plus(a[lo + 1], Mul(Minus(a[lo + 2], a[lo + 1]), frac))
        ELSE a[lo + 1]

RECURSIVE Sum(_)
Sum(s) == IF s = <<>> THEN Num(0) ELSE Plus(Head(s), Sum(Tail(s)))

unique_cols == <<"location", "district", "property_type", "currency">>

\* report["unique_counts"]: df[c].nunique(dropna=True) for the unique_cols present
UniqueCounts(rows, cols) ==
    [c \in {u \in Labels(unique_cols) : HasColumn(cols, u)} |->
        Cardinality({rows[i][c] : i \in {j \in 1..Len(rows) : ~IsNaCell(c, rows[j][c])}})]

described_cols == <<"price_numeric", "area_numeric", "bedrooms", "bathrooms", "price_per_sqm">>

\* df[c].describe() of a numeric column, without its std
Describe(s) ==
    IF s = <<>>
    THEN [count |-> 0, mean |-> NaN, min |-> NaN,
          q25 |-> NaN, q50 |-> NaN, q75 |-> NaN, max |-> NaN]
    ELSE [count |-> Len(s),
          mean |-> Mul(Sum(s), Rat(1, Len(s))),
          min |-> Ascending(s)[1],
          q25 |-> Quantile(s, 1, 4),
          q50 |-> Quantile(s, 1, 2),
          q75 |-> Quantile(s, 3, 4),
          max |-> Ascending(s)[Len(s)]]

\* report["descriptive_stats"]
DescriptiveStats(rows, cols) ==
    [c \in {u \in Labels(described_cols) : HasColumn(cols, u)} |-> Describe(DropNa(rows, c))]

\* the least number of non-null observations for which outlier bounds are reported
MIN_OBSERVATIONS == 10

\* the factor of Tukey's rule, 1.5
IQR_FACTOR == Rat(3, 2)

outlier_cols == <<"price_numeric", "price_per_sqm">>

\* mutant: a column needs more than MIN_OBSERVATIONS observations
EnoughObservations_M(s) == Len(s) > MIN_OBSERVATIONS

\* len(s) >= 10
EnoughObservations(s) == Len(s) >= MIN_OBSERVATIONS

\* outliers[c] for the observations s
OutlierBounds(s) ==
    LET q1 == Quantile(s, 1, 4)
        q3 == Quantile(s, 3, 4)
        iqr == Minus(q3, q1)
        lower == Minus(q1, Mul(IQR_FACTOR, iqr))
        upper == Plus(q3, Mul(IQR_FACTOR, iqr))
    IN  [lower_bound |-> lower,
         upper_bound |-> upper,
         num_below |-> Cardinality({i \in 1..Len(s) : Lt(s[i], lower)}),
         num_above |-> Cardinality({i \in 1..Len(s) : Lt(upper, s[i])})]

\* report["outliers_iqr"]
OutliersIqr(rows, cols) ==
    [c \in {u \in Labels(outlier_cols) :
                HasColumn(cols, u) /\ EnoughObservations(DropNa(rows, u))} |->
        OutlierBounds(DropNa(rows, c))]

\* mutant: the nulls of every column are counted in the first column
NullCounts_M(rows, cols) == [c \in Labels(cols) |-> NullCount(rows, cols[1])]

\* report["null_counts"]
NullCounts(rows, cols) == [c \in Labels(cols) |-> NullCount(rows, c)]

\* basic_analysis(df)
BasicAnalysisOf(rows, cols) ==
    [row_count |-> Len(rows),
     columns |-> cols,
     null_counts |-> NullCounts(rows, cols),
     unique_counts |-> UniqueCounts(rows, cols),
     descriptive_stats |-> DescriptiveStats(rows, cols),
     outliers_iqr |-> OutliersIqr(rows, cols)]

(***************************************************************************)
(* The datasets basic_analysis is given.  Its result does not depend on    *)
(* the order of the rows, so the rows are taken in the order of the pool.  *)
(***************************************************************************)
MaxObservations == 11  \* rows of a dataset given to basic_analysis

AnalysisColumnSets ==
    { <<"location", "price_numeric", "currency", "price_per_sqm">>,
      <<"price_numeric", "location">>,
      <<"location", "currency">> }

AnalysisPool ==
    << [location |-> StrV(<<"L">>), price_numeric |-> Num(1000), currency |-> "PEN",
        price_per_sqm |-> Num(20)],
       [location |-> NoneV, price_numeric |-> NaN, currency |-> "NA",
        price_per_sqm |-> NaN],
       [location |-> StrV(<<"M">>), price_numeric |-> Num(11), currency |-> "PEN",
        price_per_sqm |-> Rat(1, 2)],
       [location |-> StrV(<<"L">>), price_numeric |-> Num(2000), currency |-> "PEN",
        price_per_sqm |-> NaN],
       [location |-> NaNV, price_numeric |-> Num(1200), currency |-> "PEN",
        price_per_sqm |-> Num(25)] >>

\* the number of rows of the first t kinds of the pool, k[j] being that of kind j
RECURSIVE RowsUpTo(_, _)
RowsUpTo(k, t) == IF t = 0 THEN 0 ELSE k[t] + RowsUpTo(k, t - 1)

IsAnalysisInput(x, cols) ==
    \E k \in [1..Len(AnalysisPool) -> 0..MaxObservations] :
        /\ RowsUpTo(k, Len(AnalysisPool)) <= MaxObservations
        /\ x = [i \in 1..RowsUpTo(k, Len(AnalysisPool)) |->
                    FrameRow(AnalysisPool[CHOOSE t \in 1..Len(AnalysisPool) :
                                            RowsUpTo(k, t - 1) < i /\ i <= RowsUpTo(k, t)],
                             cols, i)]

(***************************************************************************)
(* Specification of a call of basic_analysis.                              *)
(***************************************************************************)
InitAnalysis ==
    /\ pc = "analysis"
    /\ columns \in AnalysisColumnSets
    /\ IsAnalysisInput(df, columns)
    /\ value = NoneV
    /\ ret = <<>>
    /\ d = <<>>
    /\ records = <<>>
    /\ dfc = <<>>
    /\ df_with_url = <<>>
    /\ df_no_url = <<>>
    /\ again = <<>>
    /\ NoOutputs
    /\ NoCleaner

\* report = basic_analysis(df)
BasicAnalysis ==
    /\ pc = "analysis"
    /\ report' = BasicAnalysisOf(df, columns)
    /\ pc' = "profiled"
    /\ UNCHANGED <<value, ret, df, d, pipelineVars, files, written, cleanerVars>>

NextAnalysis == BasicAnalysis

SpecAnalysis == InitAnalysis /\ [][NextAnalysis]_vars

(***************************************************************************)
(* The records main reads.                                                 *)
(***************************************************************************)
PriceRaw9990 == StrV(<<"S", "/", " ", "9", ",", "9", "9", "0">>)

RecordPool ==
    { << <<"url", UrlA>>, <<"scraped_at", Timestamps[1]>>,
         <<"price_raw", PriceRaw9990>>, <<"area_numeric", NumV(Num(50))>> >>,
      << <<"scraped_at", Timestamps[2]>>, <<"extra_field", StrV(<<"z">>)>>,
         <<"title", StrV(<<"T">>)>>, <<"url", UrlA>>, <<"price_raw", PriceRaw9990>>,
         <<"currency", StrV(<<"U", "S", "D">>)>>, <<"price_numeric", NumV(Num(5))>>,
         <<"price_per_sqm", NumV(Num(7))>>, <<"area_numeric", NumV(Num(50))>> >>,
      << <<"url", UrlA>>, <<"scraped_at", Timestamps[2]>>,
         <<"price_raw", StrV(<<"U", "S", "D", " ", "5", "0", "0">>)>>,
         <<"area_numeric", StrV(<<"5", "0">>)>>,
         <<"meta", DictV(<< <<"source", StrV(<<"w">>)>> >>)>> >>,
      << <<"url", UrlB>>, <<"price_raw", StrV(<<"U", "S", "D", " ", "5", "0", "0">>)>>,
         <<"area_numeric", StrV(<<"x">>)>>, <<"image_urls", ListV(<<2, 1, 2>>)>>,
         <<"has_pool", BoolV(TRUE)>> >>,
      << >>,
      << <<"full_text", TextXY>>, <<"price_raw", StrV(<<"S", "/", " ", "5">>)>>,
         <<"location", DictV(<< <<"district", StrV(<<"L">>)>> >>)>> >>,
      << <<"full_text", TextXY>>, <<"scraped_at", Timestamps[1]>>,
         <<"price_raw", StrV(<<"S", "/", " ", "1", ",", "2", "0", "0">>)>>,
         <<"area_numeric", NumV(Num(0))>>, <<"price_per_sqm", NumV(Num(7))>>,
         <<"url", NoneV>>, <<"has_pool", NoneV>> >>,
      << <<"full_text", TextXYSpaced>>, <<"scraped_at", Timestamps[2]>>,
         <<"price_raw", StrV(<<"S", "/", " ", "1", ",", "2", "0", "0">>)>>,
         <<"bedrooms", NumV(Num(3))>>, <<"currency", StrV(<<"P", "E", "N">>)>> >>,
      << <<"url", UrlB>>, <<"price_raw", PriceRaw9990>>,
         <<"has_pool", StrV(<<"y", "e", "s">>)>> >> }

(***************************************************************************)
(* read_all_cleaned_json.  A file is [kind, data]: a JSON list (data is    *)
(* the sequence of its elements), a JSON object (data holds the one        *)
(* record), any other JSON value, or a file that open() or json.load()     *)
(* fails on.  An element of a list that is not an object is written as the *)
(* one-pair sequence <<NOT_A_MAPPING, value>>.                             *)
(***************************************************************************)
NOT_A_MAPPING == "#"
NonMapping(v) == << <<NOT_A_MAPPING, v>> >>

\* isinstance(rec, dict)
IsMapping(rec) == ~HasKey(rec, NOT_A_MAPPING)

JsonList(elems) == [kind |-> "list", data |-> elems]
JsonDict(rec) == [kind |-> "dict", data |-> <<rec>>]
JsonScalar == [kind |-> "scalar", data |-> <<>>]
Unreadable == [kind |-> "unreadable", data |-> <<>>]

\* the records of the files in path order: a list is extended with, an object
\* is appended, any other value and any file that raises is passed over
RECURSIVE ReadAllCleanedJson(_)
ReadAllCleanedJson(fs) ==
    IF fs = <<>> THEN <<>>
    ELSE (IF Head(fs).kind \in {"list", "dict"} THEN Head(fs).data ELSE <<>>)
         \o ReadAllCleanedJson(Tail(fs))

\* the exception normalize_records raises on the records, "" when it raises
\* none: json_normalize calls .values() or .items() on every record, and
\* astype("boolean") takes bools, 0/1 and nulls only
NormalizeRaises(recs) ==
    IF \E i \in 1..Len(recs) : ~IsMapping(recs[i]) THEN "AttributeError"
    ELSE IF \E i \in 1..Len(recs) : \E c \in bool_cols :
                /\ HasKey(Flattened(recs[i]), c)
                /\ ValueOf(Flattened(recs[i]), c).tag \notin {"bool", "None", "NaN", "NA"}
         THEN "TypeError"
         ELSE ""

\* mutant: the run never halts for want of records
NoRecords_M(recs) == FALSE

\* not records
NoRecords(recs) == recs = <<>>

\* mutant: the last row is not written
ToParquet_M(rows) == [i \in 1..(Len(rows) - 1) |-> [c \in DOMAIN rows[i] \ {"idx"} |-> rows[i][c]]]

\* df.to_parquet(out_path, engine="pyarrow", index=False): the rows, without the index
ToParquet(rows) == [i \in 1..Len(rows) |-> [c \in DOMAIN rows[i] \ {"idx"} |-> rows[i][c]]]

\* pd.Series(report["null_counts"]).to_csv(header=["null_count"]): a line per column
NullCountsCsv(rep) ==
    [k \in 1..Len(rep.columns) |-> <<rep.columns[k], rep.null_counts[rep.columns[k]]>>]

\* the output files: each is <<>> until it is written, then holds its content
NothingWritten == [parquet |-> <<>>, profile |-> <<>>, null_counts |-> <<>>]

(***************************************************************************)
(* The input directories of main: up to MaxRecords elements, in one file   *)
(* or spread over several files among files that give no record.           *)
(***************************************************************************)
Elements == RecordPool \cup {NonMapping(NumV(Num(5)))}

IsInputDir(fs) ==
    \E n \in 0..MaxRecords : \E e \in [1..n -> Elements] : \E layout \in {"one", "several"} :
        fs = IF layout = "one"
             THEN (IF n = 0 THEN <<>> ELSE <<JsonList(e)>>)
             ELSE IF n = 0
                  THEN <<Unreadable, JsonScalar, JsonList(<<>>)>>
                  ELSE <<(IF IsMapping(e[1]) THEN JsonDict(e[1]) ELSE JsonList(<<e[1]>>)),
                         Unreadable, JsonScalar, JsonList(Tail(e))>>

(***************************************************************************)
(* Specification of a run of main: the records are read, normalised,       *)
(* reconciled and deduplicated, the dataset is written, profiled and the   *)
(* profile saved.  A failure of the file system while an output file is    *)
(* written is not modelled.                                                *)
(***************************************************************************)
InitPipeline ==
    /\ pc = "main"
    /\ IsInputDir(files)
    /\ records = <<>>
    /\ report = <<>>
    /\ written = NothingWritten
    /\ value = NoneV
    /\ ret = <<>>
    /\ df = <<>>
    /\ d = <<>>
    /\ columns = <<>>
    /\ dfc = <<>>
    /\ df_with_url = <<>>
    /\ df_no_url = <<>>
    /\ again = <<>>
    /\ NoCleaner

\* records = read_all_cleaned_json(args.input_dir)
ReadInputFiles ==
    /\ pc = "main"
    /\ records' = ReadAllCleanedJson(files)
    /\ pc' = "read"
    /\ UNCHANGED <<value, ret, df, d, columns, dfc, df_with_url, df_no_url, again, outputVars, cleanerVars>>

\* if not records: return
HaltOnNoRecords ==
    /\ pc = "read"
    /\ NoRecords(records)
    /\ pc' = "halted"
    /\ UNCHANGED <<value, ret, df, d, records, columns, dfc, df_with_url, df_no_url, again, outputVars, cleanerVars>>

\* df = normalize_records(records); apply_notebook_cleaning_rules(df) is called
Normalize ==
    /\ pc = "read"
    /\ ~NoRecords(records)
    /\ NormalizeRaises(records) = ""
    /\ df' = NormalizeRecords(records).rows
    /\ columns' = NormalizeRecords(records).cols
    /\ pc' = "start"
    /\ UNCHANGED <<value, ret, d, records, dfc, df_with_url, df_no_url, again, outputVars, cleanerVars>>

\* normalize_records(records) raises: nothing in main catches it, the run ends
NormalizeFails ==
    /\ pc = "read"
    /\ ~NoRecords(records)
    /\ NormalizeRaises(records) # ""
    /\ ret' = StrV(<<NormalizeRaises(records)>>)
    /\ pc' = "raised"
    /\ UNCHANGED <<value, df, d, records, columns, dfc, df_with_url, df_no_url, again, outputVars, cleanerVars>>

\* df = apply_notebook_cleaning_rules(df); deduplicate_df(df) is called
AssignReconciled ==
    /\ pc = "done"
    /\ df' = d
    /\ pc' = "dedup"
    /\ UNCHANGED <<value, ret, d, records, columns, dfc, df_with_url, df_no_url, again, outputVars, cleanerVars>>

\* df = deduplicate_df(df); parquet_path = write_parquet(df, args.output_dir)
WriteParquet ==
    /\ pc = "returned"
    /\ df' = ret
    /\ written' = [written EXCEPT !.parquet = <<ToParquet(ret)>>]
    /\ pc' = "written"
    /\ UNCHANGED <<value, ret, d, pipelineVars, files, report, cleanerVars>>

\* report = basic_analysis(df)
ProfileDataset ==
    /\ pc = "written"
    /\ report' = BasicAnalysisOf(df, columns)
    /\ pc' = "profiled"
    /\ UNCHANGED <<value, ret, df, d, pipelineVars, files, written, cleanerVars>>

\* report_path = save_analysis(report, args.output_dir)
SaveAnalysis ==
    /\ pc = "profiled"
    /\ written' = [written EXCEPT !.profile = <<report>>,
                                  !.null_counts = <<NullCountsCsv(report)>>]
    /\ pc' = "saved"
    /\ UNCHANGED <<value, ret, df, d, pipelineVars, files, report, cleanerVars>>

NextPipeline ==
    \/ ReadInputFiles
    \/ HaltOnNoRecords
    \/ Normalize
    \/ NormalizeFails
    \/ InferCurrency
    \/ ComputePriceNumeric
    \/ ConvertUSD
    \/ FilterPriceRange
    \/ RecomputePricePerSqm
    \/ AssignReconciled
    \/ CanonicalizeImageUrls
    \/ SortByScrapedAt
    \/ SplitByUrl
    \/ FullTextPass
    \/ CompositeKeyPass
    \/ ConcatParts
    \/ WriteParquet
    \/ ProfileDataset
    \/ SaveAnalysis

SpecPipeline == InitPipeline /\ [][NextPipeline]_vars

(***************************************************************************)
(* PropertyDataCleaner (src/data_cleaning_agent.py).  A property is a dict: *)
(* a function from the keys it has to their values.                        *)
(***************************************************************************)
fields_to_update ==
    <<"price_raw", "price_numeric", "currency", "has_price",
      "location", "has_location", "area_raw", "area_numeric",
      "bedrooms", "bathrooms", "has_parking", "parking_count",
      "has_pool", "has_garden", "has_balcony", "has_elevator",
      "has_security", "has_gym", "is_furnished", "allows_pets",
      "is_new", "has_terrace", "has_laundry", "has_air_conditioning">>

boolean_features ==
    <<"has_parking", "has_pool", "has_garden", "has_balcony",
      "has_elevator", "has_security", "has_gym", "is_furnished",
      "allows_pets", "is_new", "has_terrace", "has_laundry",
      "has_air_conditioning">>

\* dict.get(key, default)
Get(dict, key, default) == IF key \in DOMAIN dict THEN dict[key] ELSE default

\* v in [None, "N/A", "", False]: Python compares with ==, and 0 == False
InIncompleteValues(v) ==
    \/ v.tag = "None"
    \/ v.tag = "str" /\ v.s \in {<<>>, <<"N", "/", "A">>}
    \/ v.tag = "bool" /\ ~v.s
    \/ v.tag = "num" /\ v.s = Num(0)

\* bool(v)
Truthy(v) ==
    CASE v.tag = "None" -> FALSE
      [] v.tag = "bool" -> v.s
      [] v.tag = "str" -> v.s # <<>>
      [] v.tag = "num" -> v.s # Num(0)

\* mutant: a corrected value that is an empty string does not override either
Overrides_M(corr, field) ==
    /\ field \in DOMAIN corr
    /\ corr[field].tag # "None"
    /\ ~(corr[field].tag = "str" /\ corr[field].s = <<>>)

\* field in corrected and corrected[field] is not None
Overrides(corr, field) == field \in DOMAIN corr /\ corr[field].tag # "None"

\* updated after the loop over fields_to_update
Merged(orig, corr) ==
    [k \in DOMAIN orig \cup {f \in Labels(fields_to_update) : Overrides(corr, f)} |->
        IF k \in Labels(fields_to_update) /\ Overrides(corr, k) THEN corr[k] ELSE orig[k]]

\* (complete_fields / total_fields) * 100
DataCompleteness(dict) ==
    Rat(100 * Cardinality({f \in Labels(fields_to_update) :
                              ~InIncompleteValues(Get(dict, f, NoneV))}),
        Len(fields_to_update))

\* the number of boolean features that are true
FeatureCount(dict) ==
    Cardinality({f \in Labels(boolean_features) : Truthy(Get(dict, f, BoolV(FALSE)))})

\* update_property_data(original, corrected)
UpdatePropertyData(orig, corr) ==
    [k \in DOMAIN Merged(orig, corr) \cup {"data_completeness", "feature_count"} |->
        CASE k = "data_completeness" -> NumV(DataCompleteness(Merged(orig, corr)))
          [] k = "feature_count" -> NumV(Num(FeatureCount(Merged(orig, corr))))
          [] OTHER -> Merged(orig, corr)[k]]

(***************************************************************************)
(* The arguments of update_property_data: for each key a value or none.    *)
(***************************************************************************)
Absent == [tag |-> "absent", s |-> <<>>]

\* the dict with the keys of choice that have a value
MkDict(choice) == [k \in {j \in DOMAIN choice : choice[j].tag # "absent"} |-> choice[k]]

NA_TEXT == StrV(<<"N", "/", "A">>)
Price5 == StrV(<<"S", "/", " ", "5">>)
Price9 == StrV(<<"S", "/", " ", "9">>)

\* the values each key of original may have
OriginalValues ==
    [price_raw |-> <<Absent, Price5, NA_TEXT>>,
     bedrooms |-> <<Absent, NumV(Num(3)), NoneV>>,
     has_pool |-> <<Absent, BoolV(TRUE), BoolV(FALSE)>>,
     title |-> <<Absent, StrV(<<"T">>)>>,
     data_completeness |-> <<Absent, NumV(Num(50))>>]

\* the values each key of corrected may have
CorrectedValues ==
    [price_raw |-> <<Absent, NoneV, StrV(<<>>), NA_TEXT, Price9>>,
     bedrooms |-> <<Absent, NoneV, NumV(Num(0)), NumV(Num(2))>>,
     has_pool |-> <<Absent, NoneV, BoolV(TRUE), BoolV(FALSE)>>,
     title |-> <<Absent, StrV(<<"U">>)>>,
     notes |-> <<Absent, StrV(<<"n">>)>>]

\* x is a dict with, for each key of values, one of its values or none
IsDictOf(x, values) ==
    \E n \in [DOMAIN values -> 1..5] :
        /\ \A k \in DOMAIN values : n[k] <= Len(values[k])
        /\ x = MkDict([k \in DOMAIN values |-> values[k][n[k]]])

IsOriginal(x) == IsDictOf(x, OriginalValues)

IsCorrected(x) == IsDictOf(x, CorrectedValues)

(***************************************************************************)
(* Specification of a call of update_property_data.                        *)
(***************************************************************************)
InitUpdate ==
    /\ pc = "update"
    /\ IsOriginal(original)
    /\ IsCorrected(corrected)
    /\ updated = <<>>
    /\ properties = <<>>
    /\ start_index = 0
    /\ batch_size = 0
    /\ next_i = 0
    /\ cleaned_properties = <<>>
    /\ processed_count = 0
    /\ errors = <<>>
    /\ value = NoneV
    /\ ret = <<>>
    /\ df = <<>>
    /\ d = <<>>
    /\ NoPipeline
    /\ NoOutputs

CallUpdatePropertyData ==
    /\ pc = "update"
    /\ updated' = UpdatePropertyData(original, corrected)
    /\ pc' = "updated"
    /\ UNCHANGED <<value, ret, df, d, pipelineVars, outputVars, original, corrected,
                   properties, start_index, batch_size, next_i, cleaned_properties,
                   processed_count, errors>>

NextUpdate == CallUpdatePropertyData

SpecUpdate == InitUpdate /\ [][NextUpdate]_vars

(***************************************************************************)
(* process_batch.  An element of properties is [data, response]: the       *)
(* property and what its model call gives: "api_error" (the call raises),  *)
(* "no_json" (the content has no {...}), "bad_json" (json.loads fails on    *)
(* the match) or "json" (data is the dict parsed).                         *)
(***************************************************************************)
MaxProperties == 3  \* properties given to process_batch
MaxBatchSize == 2   \* batch_size is 0..MaxBatchSize

Response(kind, data) == [kind |-> kind, data |-> data]

\* self.errors after analyze_property_with_gpt: the outer handler records the
\* error; the handler of JSONDecodeError only prints
ErrorsAfterAnalysis(errs, response, i) ==
    IF response.kind \in {"api_error", "no_json"}
    THEN Append(errs, <<"analyzing", i>>)
    ELSE errs

\* what analyze_property_with_gpt returns: the parsed dict, or property_data
AnalyzePropertyWithGpt(property_data, response) ==
    IF response.kind = "json" THEN response.data ELSE property_data

\* property_data.get('full_text', '')
FullTextOf(property_data) == Get(property_data, "full_text", StrV(<<>>))

\* .strip() raises AttributeError on a full_text that is not a str
StripRaises(property_data) == FullTextOf(property_data).tag # "str"

\* not property_data.get('full_text', '').strip()
NoFullText(property_data) == Strip(FullTextOf(property_data).s) = <<>>

\* updated_property
UpdatedProperty(property_data, response) ==
    UpdatePropertyData(property_data, AnalyzePropertyWithGpt(property_data, response))

TextProperty ==
    MkDict([full_text |-> TextXY, price_raw |-> Price5, title |-> StrV(<<"T">>),
            data_completeness |-> NumV(Num(50))])

PropertyPool ==
    {[data |-> TextProperty, response |-> Response("api_error", <<>>)],
     [data |-> TextProperty, response |-> Response("no_json", <<>>)],
     [data |-> TextProperty, response |-> Response("bad_json", <<>>)],
     [data |-> TextProperty,
      response |-> Response("json", MkDict([price_raw |-> Price9, has_pool |-> BoolV(TRUE)]))],
     [data |-> MkDict([full_text |-> TextZ, has_pool |-> BoolV(TRUE)]),
      response |-> Response("json", MkDict([price_raw |-> NoneV, has_pool |-> Absent]))],
     [data |-> MkDict([full_text |-> Absent, title |-> StrV(<<"T">>)]),
      response |-> Response("api_error", <<>>)],
     [data |-> MkDict([full_text |-> NoneV, title |-> StrV(<<"T">>)]),
      response |-> Response("api_error", <<>>)],
     [data |-> MkDict([full_text |-> StrV(<<" ", "\t">>), has_pool |-> BoolV(TRUE)]),
      response |-> Response("api_error", <<>>)]}

(***************************************************************************)
(* Specification of a call of process_batch, one action per iteration of   *)
(* its loop.  next_i is the index i of the iteration, counted from 0.       *)
(***************************************************************************)
InitBatch ==
    /\ pc = "batch"
    /\ \E n \in 0..MaxProperties : properties \in [1..n -> PropertyPool]
    /\ start_index \in 0..Len(properties)
    /\ batch_size \in 0..MaxBatchSize
    /\ next_i = start_index
    /\ cleaned_properties = <<>>
    /\ processed_count = 0
    /\ errors = <<>>
    /\ original = <<>>
    /\ corrected = <<>>
    /\ updated = <<>>
    /\ value = NoneV
    /\ ret = <<>>
    /\ df = <<>>
    /\ d = <<>>
    /\ NoPipeline
    /\ NoOutputs

\* the iteration ends in the handler: the error is recorded, the original appended
HandleException(cleaned, errs) ==
    /\ errors' = Append(errs, <<"processing", next_i>>)
    /\ cleaned_properties' = Append(cleaned, properties[next_i + 1].data)

\* an iteration on a property whose full_text makes .strip() raise
IterationRaises ==
    /\ pc = "batch"
    /\ next_i < Len(properties)
    /\ StripRaises(properties[next_i + 1].data)
    /\ HandleException(cleaned_properties, errors)
    /\ next_i' = next_i + 1
    /\ UNCHANGED <<pc, value, ret, df, d, pipelineVars, outputVars, original, corrected,
                   updated, properties, start_index, batch_size, processed_count>>

\* an iteration on a property with no full_text: appended as it is, not counted
IterationSkips ==
    /\ pc = "batch"
    /\ next_i < Len(properties)
    /\ ~StripRaises(properties[next_i + 1].data)
    /\ NoFullText(properties[next_i + 1].data)
    /\ cleaned_properties' = Append(cleaned_properties, properties[next_i + 1].data)
    /\ next_i' = next_i + 1
    /\ UNCHANGED <<pc, value, ret, df, d, pipelineVars, outputVars, original, corrected,
                   updated, properties, start_index, batch_size, processed_count, errors>>

\* an iteration that analyses the property, updates and appends it, counts it
\* and tests (i + 1) % batch_size: with batch_size 0 that raises
\* ZeroDivisionError, with a multiple of batch_size reached the progress is
\* saved (save_progress catches what writing the file may raise)
IterationProcesses ==
    /\ pc = "batch"
    /\ next_i < Len(properties)
    /\ ~StripRaises(properties[next_i + 1].data)
    /\ ~NoFullText(properties[next_i + 1].data)
    /\ LET p == properties[next_i + 1]
           appended == Append(cleaned_properties, UpdatedProperty(p.data, p.response))
           errs == ErrorsAfterAnalysis(errors, p.response, next_i)
       IN  /\ processed_count' = processed_count + 1
           /\ IF batch_size = 0
              THEN HandleException(appended, errs) /\ UNCHANGED written
              ELSE /\ cleaned_properties' = appended
                   /\ errors' = errs
                   /\ IF (next_i + 1) % batch_size = 0
                      THEN \E saved \in BOOLEAN :
                              written' = IF saved
                                         THEN Append(written, <<appended, next_i + 1>>)
                                         ELSE written
                      ELSE UNCHANGED written
    /\ next_i' = next_i + 1
    /\ UNCHANGED <<pc, value, ret, df, d, pipelineVars, files, report, original, corrected,
                   updated, properties, start_index, batch_size>>

\* return cleaned_properties
ReturnCleaned ==
    /\ pc = "batch"
    /\ next_i >= Len(properties)
    /\ ret' = cleaned_properties
    /\ pc' = "returned"
    /\ UNCHANGED <<value, df, d, pipelineVars, outputVars, cleanerVars>>

NextBatch ==
    \/ IterationRaises
    \/ IterationSkips
    \/ IterationProcesses
    \/ ReturnCleaned

SpecBatch == InitBatch /\ [][NextBatch]_vars

(***************************************************************************)
(* Claims about parse_amount (checked under SpecParseAmount).              *)
(***************************************************************************)
Returned == pc = "return"

\* what a claim calls "parse x": float(x), or "no value" when x is no valid float
ParsedOrNoValue(x) == IF PyFloat(x).kind = "ValueError" THEN NoneF ELSE PyFloat(x)

CommaCount(s) == Cardinality({i \in 1..Len(s) : s[i] = ","})

\* position of the k-th comma of s (s holds at least k commas)
NthComma(s, k) ==
    CHOOSE i \in 1..Len(s) :
        /\ s[i] = ","
        /\ Cardinality({j \in 1..(i - 1) : s[j] = ","}) = k - 1

\* number of digit characters strictly before the first comma of s
LeadingDigitCount(s) ==
    Cardinality({j \in 1..(NthComma(s, 1) - 1) : s[j] \in Digits})

\* s without the character at position i
DropAt(s, i) == [j \in 1..(Len(s) - 1) |-> IF j < i THEN s[j] ELSE s[j + 1]]

\* the characters of s that are digits, signs or decimal points, in order
RECURSIVE NumericChars(_)
NumericChars(s) ==
    IF s = <<>> THEN <<>>
    ELSE IF Head(s) \in Digits \cup {"+", "-", "."}
         THEN <<Head(s)>> \o NumericChars(Tail(s))
         ELSE NumericChars(Tail(s))

ResultFor(s, r) == (Returned /\ value = StrV(s)) => ret = r

\* C1: parse_amount returns exactly 190.0 for "190,000", 9990.0 for "9,990",
\* 1400.0 for "1,400,000" and 1234.0 for "1234,567,890".
C1_Examples ==
    /\ ResultFor(<<"1", "9", "0", ",", "0", "0", "0">>, Num(190))
    /\ ResultFor(<<"9", ",", "9", "9", "0">>, Num(9990))
    /\ ResultFor(<<"1", ",", "4", "0", "0", ",", "0", "0", "0">>, Num(1400))
    /\ ResultFor(<<"1", "2", "3", "4", ",", "5", "6", "7", ",", "8", "9", "0">>, Num(1234))

C1_Witness ==
    /\ Returned
    /\ value = StrV(<<"1", ",", "4", "0", "0", ",", "0", "0", "0">>)
    /\ ret = Num(1400)

\* C2: whenever the input holds a comma and more than 2 digit characters
\* before its first comma, the result is the parse of the digits, signs and
\* decimal points of that prefix alone, whatever the number of commas; in
\* particular "123,45" gives 123.0.
C2_Truncation ==
    /\ (Returned /\ value.tag = "str" /\ CommaCount(value.s) >= 1
          /\ LeadingDigitCount(value.s) > 2)
       => ret = ParsedOrNoValue(NumericChars(Before(value.s, NthComma(value.s, 1))))
    /\ ResultFor(<<"1", "2", "3", ",", "4", "5">>, Num(123))

C2_Witness ==
    /\ Returned
    /\ value = StrV(<<"1", "2", "3", ",", "4", "5">>)
    /\ ret = Num(123)

\* C3: with two or more commas and at most 2 digits before the first, the
\* result is the parse of the text before the second comma with the first
\* comma removed; nothing after the second comma influences it.
C3_TwoCommas ==
    (Returned /\ value.tag = "str" /\ CommaCount(value.s) >= 2
       /\ LeadingDigitCount(value.s) <= 2)
    => ret = ParsedOrNoValue(
                 DropAt(Before(value.s, NthComma(value.s, 2)), NthComma(value.s, 1)))

C3_Witness ==
    /\ Returned
    /\ value = StrV(<<"1", "2", ",", "4", "5", ",", "x">>)
    /\ ret = Num(1245)

\* C4: with exactly one comma and at most 2 digits before it, the result is
\* the parse of the input with the comma removed.
C4_OneComma ==
    (Returned /\ value.tag = "str" /\ CommaCount(value.s) = 1
       /\ LeadingDigitCount(value.s) <= 2)
    => ret = ParsedOrNoValue(DropAt(value.s, NthComma(value.s, 1)))

C4_Witness ==
    /\ Returned
    /\ value = StrV(<<"1", ",", "1", ".", "5">>)
    /\ ret = Rat(23, 2)

\* C5: for a string without commas the result is float of the string, or
\* "no value" when the string is no valid float.
C5_NoComma ==
    (Returned /\ value.tag = "str" /\ CommaCount(value.s) = 0)
    => ret = ParsedOrNoValue(value.s)

C5_Witness ==
    /\ Returned
    /\ value = StrV(<<" ", "-", ".", "2">>)
    /\ ret = Rat(-1, 5)

\* C6: parse_amount never raises: no exception escapes the call; None, an
\* empty or a whitespace-only string, and a string whose branch hands float()
\* a text that is no valid number all give "no value".
C6_NeverRaises ==
    Returned =>
        /\ ret.kind \in {"none", "num", "inf", "nan"}
        /\ (value.tag = "None" \/ \A i \in 1..Len(value.s) : value.s[i] \in Whitespace)
           => ret = NoneF
        /\ (value.tag = "str" /\ Strip(value.s) # <<>>
              /\ TryBody(Strip(value.s)) = ValueError)
           => ret = NoneF

C6_Witness ==
    /\ Returned
    /\ value = StrV(<<"1", ".", "2", ".">>)
    /\ PyFloat(value.s) = ValueError
    /\ ret = NoneF

(***************************************************************************)
(* Claims about apply_notebook_cleaning_rules (checked under SpecReconcile)*)
(***************************************************************************)
\* 10 < x <= 90000 for a float x (False for NaN, None and the infinities)
Plausible(x) ==
    /\ x.kind = "num"
    /\ 10 * x.den < x.num
    /\ x.num <= 90000 * x.den

\* the input row with index label i is a row of the result
Survives(i) == \E j \in 1..Len(d) : d[j].idx = i

\* the currency a row has after inference, as the claims word it
CurrencyAfterInference(row) ==
    IF Contains(AsTypeStr(row.price_raw), <<"S", "/">>) THEN "PEN"
    ELSE IF Contains(AsTypeStr(row.price_raw), <<"U", "S", "D">>) THEN "USD"
    ELSE row.currency

\* the amount parsed from the first segment of a row's price_raw
AmountOfFirstSegment(row) == ParseAmount(StrV(Cleaned(row)))

\* that amount after any USD conversion at 3.8
AmountInPEN(row) ==
    IF CurrencyAfterInference(row) = "USD" /\ NotNa(AmountOfFirstSegment(row))
    THEN Times(AmountOfFirstSegment(row), Rat(38, 10))
    ELSE AmountOfFirstSegment(row)

USD_1_400_000 == StrV(<<"U", "S", "D", " ", "1", ",", "4", "0", "0", ",", "0", "0", "0">>)

\* C7: after reconciliation every surviving row has 10 < price_numeric <= 90000
\* and currency PEN.
C7_RangeAndCurrency ==
    pc = "done" =>
        \A j \in 1..Len(d) : Plausible(d[j].price_numeric) /\ d[j].currency = "PEN"

C7_Witness ==
    /\ pc = "done"
    /\ \E j \in 1..Len(d) :
          /\ df[d[j].idx].currency = "USD"
          /\ df[d[j].idx].price_raw = StrV(<<"2", "3", ",", "6", "8", "4">>)
          /\ d[j].price_numeric = Rat(899992, 10)
          /\ d[j].currency = "PEN"

\* C8: a row is in the result if and only if the amount parsed from the first
\* segment of its price_raw, after any USD conversion, is > 10 and <= 90000
\* (10 is dropped, 90000 is kept); a row whose price_raw yields no amount is
\* dropped whatever price_numeric it carried.
C8_HardFilter ==
    pc = "done" =>
        /\ \A i \in 1..Len(df) : Survives(i) <=> Plausible(AmountInPEN(df[i]))
        /\ \A i \in 1..Len(df) : AmountInPEN(df[i]) = Num(10) => ~Survives(i)
        /\ \A i \in 1..Len(df) : AmountInPEN(df[i]) = Num(90000) => Survives(i)
        /\ \A i \in 1..Len(df) : ~NotNa(AmountOfFirstSegment(df[i])) => ~Survives(i)
        /\ \A j, k \in 1..Len(d) : j < k => d[j].idx < d[k].idx

C8_Witness ==
    /\ pc = "done"
    /\ \E i \in 1..Len(df) :
          /\ df[i].price_numeric = Num(500)
          /\ AmountOfFirstSegment(df[i]) = NoneF
          /\ ~Survives(i)
    /\ \E i \in 1..Len(df) : AmountInPEN(df[i]) = Num(9990) /\ Survives(i)

\* C9: after currency inference and before conversion, a row's currency is PEN
\* if price_raw contains 'S/' (even when it also contains 'USD'), USD if it
\* contains 'USD' and not 'S/', and otherwise the currency the row carried.
C9_CurrencyInference ==
    pc \in {"inferred", "parsed"} =>
        /\ Len(d) = Len(df)
        /\ \A i \in 1..Len(d) : d[i].currency = CurrencyAfterInference(df[i])

C9_Witness ==
    /\ pc = "inferred"
    /\ \E i \in 1..Len(d) :
          /\ Contains(AsTypeStr(df[i].price_raw), <<"U", "S", "D">>)
          /\ Contains(AsTypeStr(df[i].price_raw), <<"S", "/">>)
          /\ df[i].currency = "USD"
          /\ d[i].currency = "PEN"
    /\ \E i \in 1..Len(d) :
          /\ df[i].price_raw = StrV(<<"U", "S", "D", " ", "5", "0", "0">>)
          /\ df[i].currency = "NA"
          /\ d[i].currency = "USD"

\* C10: the conversion step multiplies by 3.8 the price of exactly the rows
\* whose currency after inference is USD and whose parsed amount is present,
\* and leaves every other price as parsed; the filter then keeps exactly the
\* rows whose converted price is plausible, and no later step changes a price.
\* price_raw "USD 1,400,000" parses to 1400, converts to 5320 and survives.
ConversionStep ==
    (pc = "parsed" /\ pc' = "converted") =>
        /\ Len(d') = Len(d)
        /\ \A i \in 1..Len(d) :
              d'[i].price_numeric =
                  IF d[i].currency = "USD" /\ NotNa(d[i].price_numeric)
                  THEN Times(d[i].price_numeric, Rat(38, 10))
                  ELSE d[i].price_numeric

FilterStep ==
    (pc = "converted" /\ pc' = "filtered") =>
        \A i \in 1..Len(d) :
            (\E j \in 1..Len(d') : d'[j] = d[i]) <=> Plausible(d[i].price_numeric)

PriceKeptAfterConversion ==
    pc \in {"converted", "filtered"} =>
        \A j \in 1..Len(d') :
            \E i \in 1..Len(d) :
                d[i].idx = d'[j].idx /\ d[i].price_numeric = d'[j].price_numeric

C10_Conversion ==
    /\ [][ConversionStep]_vars
    /\ [][FilterStep]_vars
    /\ [][PriceKeptAfterConversion]_vars
    /\ [](pc = "parsed" =>
            \A i \in 1..Len(d) : d[i].price_raw = USD_1_400_000 =>
                d[i].currency = "USD" /\ d[i].price_numeric = Num(1400))
    /\ [](pc = "done" =>
            \A i \in 1..Len(df) : df[i].price_raw = USD_1_400_000 =>
                \E j \in 1..Len(d) : d[j].idx = i /\ d[j].price_numeric = Num(5320))

C10_Witness ==
    /\ pc = "done"
    /\ \E j \in 1..Len(d) :
          /\ df[d[j].idx].price_raw = USD_1_400_000
          /\ df[d[j].idx].currency = "PEN"
          /\ d[j].price_numeric = Num(5320)
    /\ \E j \in 1..Len(d) :
          /\ df[d[j].idx].price_raw = StrV(<<"S", "/", " ", "9", ",", "9", "9", "0">>)
          /\ d[j].price_numeric = Num(9990)

\* C11: every surviving row with area_numeric > 0 has price_per_sqm equal to
\* price_numeric / area_numeric, and every surviving row whose area_numeric is
\* null or <= 0 has price_per_sqm null, whatever price_per_sqm it carried.
C11_PricePerSqm ==
    pc = "done" =>
        \A j \in 1..Len(d) :
            IF d[j].area_numeric.kind = "num" /\ d[j].area_numeric.num > 0
            THEN /\ d[j].price_per_sqm.kind = "num"
                 /\ d[j].price_per_sqm.num * d[j].area_numeric.num * d[j].price_numeric.den
                      = d[j].price_numeric.num * d[j].area_numeric.den * d[j].price_per_sqm.den
            ELSE ~NotNa(d[j].price_per_sqm)

(***************************************************************************)
(* Claims about deduplicate_df (checked under SpecDedup).                  *)
(***************************************************************************)
\* the fields of a row, without its label in the index
Fields(row) == [c \in DOMAIN row \ {"idx"} |-> row[c]]

\* a claim's "well-formed absolute URL": non-null, longer than 3, starting with http
Usable(row) ==
    /\ row.url.tag = "str"
    /\ Len(row.url.s) > 3
    /\ SubSeq(row.url.s, 1, 4) = <<"h", "t", "t", "p">>

Known(row) == row.scraped_at.tag = "str"

\* a is strictly earlier than b in the sort by scraped_at, unknown last
Earlier(a, b) ==
    Known(a) /\ (~Known(b) \/ DigitsToInt(a.scraped_at.s) < DigitsToInt(b.scraped_at.s))

\* a is scraped strictly later than b
Later(a, b) ==
    Known(a) /\ Known(b) /\ DigitsToInt(a.scraped_at.s) > DigitsToInt(b.scraped_at.s)

Least(S) == CHOOSE x \in S : \A y \in S : x <= y

UrlFrame == HasColumn(columns, "url")

\* the labels of the input rows that deduplicate_df returned
SurvivorLabels ==
    IF UrlFrame
    THEN {df_with_url[i].idx : i \in 1..Len(df_with_url)}
            \cup {df_no_url[i].idx : i \in 1..Len(df_no_url)}
    ELSE {ret[i].idx : i \in 1..Len(ret)}

\* C12: of the input rows sharing one usable URL exactly one survives, and it
\* is the first of them in the sort by scraped_at: no row with that URL is
\* earlier, and a row with a known timestamp wins over one with an unknown one.
C12_EarliestPerUrl ==
    (pc = "returned" /\ UrlFrame) =>
        \A i \in 1..Len(df) : Usable(df[i]) =>
            /\ Cardinality({k \in 1..Len(ret) : ret[k].url = df[i].url}) = 1
            /\ \A k \in 1..Len(ret) : ret[k].url = df[i].url =>
                  /\ ~Earlier(df[i], ret[k])
                  /\ Fields(ret[k]) =
                        Fields(dfc[Least({j \in 1..Len(dfc) : dfc[j].url = df[i].url})])

C12_Witness ==
    /\ pc = "returned"
    /\ UrlFrame
    /\ Len(ret) < Len(df)
    /\ \E i, j \in 1..Len(df) :
          /\ Usable(df[i]) /\ df[j].url = df[i].url
          /\ Known(df[i]) /\ ~Known(df[j])
          /\ \E k \in 1..Len(ret) : ret[k].url = df[i].url /\ Known(ret[k])

\* two rows collide on an identity key: the same usable URL, or, without a
\* usable URL, the same normalized full_text or the same composite key
Collide(a, b) ==
    \/ Usable(a) /\ Usable(b) /\ a.url = b.url
    \/ /\ ~Usable(a) /\ ~Usable(b)
       /\ \/ FtNorm(a) = FtNorm(b)
          \/ CompositeKey(a, columns) = CompositeKey(b, columns)

\* C13 as stated: when rows collide on an identity key the row kept is the
\* most recently scraped one, so no input row colliding with a returned row was
\* scraped later than it.
C13_KeepsLatest ==
    (pc = "returned" /\ columns = DedupColumns) =>
        \A k \in 1..Len(ret) : \A i \in 1..Len(df) :
            Collide(df[i], ret[k]) => ~Later(df[i], ret[k])

\* a pass that takes the rows "entering" with the given keys and leaves "kept":
\* of the rows with one key exactly one is kept, the first of them, and none of
\* them is earlier than it
KeptEarliest(entering, keys, kept) ==
    \A i \in 1..Len(entering) :
        LET group == {j \in 1..Len(entering) : keys[j] = keys[i]}
        IN  /\ Cardinality({k \in 1..Len(kept) :
                    kept[k].idx \in {entering[j].idx : j \in group}}) = 1
            /\ \E k \in 1..Len(kept) : kept[k] = entering[Least(group)]
            /\ \A j \in group : ~Earlier(entering[j], entering[Least(group)])

C13_Step ==
    /\ (pc = "sorted" /\ pc' = "split") =>
          KeptEarliest(SelectSeq(dfc, Usable),
                       [i \in 1..Len(SelectSeq(dfc, Usable)) |-> SelectSeq(dfc, Usable)[i].url],
                       df_with_url')
    /\ (pc = "split" /\ pc' = "texts" /\ HasColumn(columns, "full_text")) =>
          KeptEarliest(df_no_url,
                       [i \in 1..Len(df_no_url) |-> FtNorm(df_no_url[i])],
                       df_no_url')
    /\ (pc = "texts" /\ pc' = "keys" /\ KeyCols(columns) # <<>>) =>
          KeptEarliest(df_no_url,
                       [i \in 1..Len(df_no_url) |-> CompositeKey(df_no_url[i], columns)],
                       df_no_url')

\* C13, amended: when several rows entering a pass collide on the key of that
\* pass (the same usable URL; among the rows without one, the same normalized
\* full_text; among the survivors of that, the same composite key), the pass
\* keeps exactly one of them, the earliest in the sort by scraped_at with
\* unknown timestamps last: never a row scraped later than another of them.
C13_KeepsEarliest == [][C13_Step]_vars

C13_Witness ==
    /\ pc = "keys"
    /\ columns = DedupColumns
    /\ Len(df_with_url) = 1
    /\ \E i \in 1..Len(dfc) : \E k \in 1..Len(df_no_url) :
          /\ ~Usable(dfc[i]) /\ dfc[i].idx \notin SurvivorLabels
          /\ Later(dfc[i], df_no_url[k])
          /\ Collide(dfc[i], df_no_url[k])

\* a row with no identity: no usable URL, no full_text, no key field
EmptyIdentity(row) ==
    /\ UrlFrame => ~Usable(row)
    /\ HasColumn(columns, "full_text") => row.full_text.tag \in {"None", "NaN", "NA"}
    /\ \A k \in 1..Len(KeyCols(columns)) : IsNull(row[KeyCols(columns)[k]])

\* C14: rows with no usable URL, a null full_text and a null in every field of
\* the composite key are never discarded: all of them are returned.
C14_EmptyKeysSurvive ==
    pc = "returned" =>
        \A i \in 1..Len(df) : EmptyIdentity(df[i]) => df[i].idx \in SurvivorLabels

\* C15: rows with different usable URLs both survive, whatever their
\* full_text and key fields; a row with a usable URL is discarded only for a
\* returned row with the same URL, and a row without one only for another row
\* without one that shares its normalized full_text or its composite key.  The
\* rows returned are the survivors of the two parts.
C15_DifferentIdentities ==
    (pc = "returned" /\ UrlFrame) =>
        /\ \A i \in 1..Len(df) : Usable(df[i]) =>
              \E k \in 1..Len(ret) : ret[k].url = df[i].url
        /\ \A i \in 1..Len(dfc) : dfc[i].idx \notin SurvivorLabels =>
              \E j \in 1..Len(dfc) :
                  /\ j # i
                  /\ dfc[j].idx \in SurvivorLabels
                  /\ Usable(dfc[j]) <=> Usable(dfc[i])
                  /\ Usable(dfc[i]) => dfc[j].url = dfc[i].url
        /\ Len(ret) = Cardinality(SurvivorLabels)
        /\ \A k \in 1..Len(ret) :
              Fields(ret[k]) = Fields((df_with_url \o df_no_url)[k])

C15_Witness ==
    /\ pc = "returned"
    /\ columns = DedupColumns
    /\ Len(ret) = 3
    /\ \E i, j, k \in 1..Len(ret) :
          /\ Usable(ret[i]) /\ Usable(ret[j]) /\ ~Usable(ret[k])
          /\ ret[i].url # ret[j].url
          /\ FtNorm(ret[i]) = FtNorm(ret[j]) /\ FtNorm(ret[j]) = FtNorm(ret[k])
          /\ CompositeKey(ret[i], columns) = CompositeKey(ret[j], columns)
          /\ CompositeKey(ret[j], columns) = CompositeKey(ret[k], columns)

\* C16: deduplicate_df applied to its own result returns the same rows.
C16_Idempotent ==
    pc = "again" =>
        /\ Len(again) = Len(ret)
        /\ {Fields(again[i]) : i \in 1..Len(again)} = {Fields(ret[i]) : i \in 1..Len(ret)}

C16_Witness ==
    /\ pc = "again"
    /\ Len(df) = 3
    /\ Len(ret) = 2
    /\ Len(again) = 2
    /\ UrlFrame
    /\ \E i \in 1..2 : ~Usable(ret[i])

\* the words of a text: equal for two texts exactly when the texts are equal
\* after every run of whitespace is collapsed to one space and the ends trimmed
RECURSIVE WordLen(_)
WordLen(s) == IF s = <<>> \/ Head(s) \in Whitespace THEN 0 ELSE 1 + WordLen(Tail(s))

RECURSIVE Words(_)
Words(s) ==
    IF s = <<>> THEN <<>>
    ELSE IF Head(s) \in Whitespace THEN Words(Tail(s))
    ELSE <<SubSeq(s, 1, WordLen(s))>> \o Words(SubSeq(s, WordLen(s) + 1, Len(s)))

SameText(a, b) ==
    a.full_text.tag = "str" /\ b.full_text.tag = "str"
    /\ Words(a.full_text.s) = Words(b.full_text.s)

\* C17: after the full-text pass, of the rows without a usable URL whose
\* full_text is equal after normalisation exactly one is left, the first of
\* them in the sort order, and a row the pass removed has the same normalized
\* full_text as another row without a usable URL.
C17_FullTextCollapse ==
    (pc = "texts" /\ HasColumn(columns, "full_text")) =>
        LET nourl == SelectSeq(dfc, LAMBDA r : ~Usable(r))
            left == {df_no_url[k].idx : k \in 1..Len(df_no_url)}
        IN  /\ \A i \in 1..Len(nourl) : nourl[i].full_text.tag = "str" =>
                  LET group == {j \in 1..Len(nourl) : SameText(nourl[j], nourl[i])}
                  IN  {nourl[j].idx : j \in group} \cap left = {nourl[Least(group)].idx}
            /\ \A i \in 1..Len(nourl) : nourl[i].idx \notin left =>
                  \E j \in 1..Len(nourl) : j # i /\ SameText(nourl[j], nourl[i])

\* C18: every row returned is equal, field by field, to a row of the input,
\* image_urls included.
C18_RowsUnchanged ==
    pc = "returned" =>
        \A k \in 1..Len(ret) : \E i \in 1..Len(df) : Fields(ret[k]) = Fields(df[i])

(***************************************************************************)
(* Claims about the pipeline (checked under SpecPipeline).                 *)
(***************************************************************************)
\* the record has the field, at its top level, with the given value
Carries(rec, k, v) == \E i \in 1..Len(rec) : rec[i] = <<k, v>>

\* the scenario of C19: two records with one usable URL and different
\* scraped_at, each with price_raw "S/ 9,990" and area_numeric 50
TwoScrapesOfOneListing ==
    /\ Len(records) = 2
    /\ \E u \in {UrlA, UrlB} : Carries(records[1], "url", u) /\ Carries(records[2], "url", u)
    /\ \E s1, s2 \in {Timestamps[1], Timestamps[2]} :
          /\ s1 # s2
          /\ Carries(records[1], "scraped_at", s1)
          /\ Carries(records[2], "scraped_at", s2)
    /\ \A i \in 1..2 :
          /\ Carries(records[i], "price_raw", StrV(<<"S", "/", " ", "9", ",", "9", "9", "0">>))
          /\ Carries(records[i], "area_numeric", NumV(Num(50)))

\* C19: normalised, reconciled and deduplicated, the two records of the
\* scenario give exactly one row, with price_numeric 9990, currency PEN and
\* price_per_sqm 199.8.
C19_EndToEnd ==
    (pc = "returned" /\ TwoScrapesOfOneListing) =>
        /\ Len(ret) = 1
        /\ ret[1].price_numeric = [kind |-> "num", num |-> 9990, den |-> 1]
        /\ ret[1].currency = "PEN"
        /\ ret[1].price_per_sqm = [kind |-> "num", num |-> 999, den |-> 5]

C19_Witness ==
    /\ pc = "returned"
    /\ TwoScrapesOfOneListing
    /\ records[1] # records[2]
    /\ Len(ret) = 1
    /\ ret[1].price_per_sqm.num = 999

\* the record has the column as a field of its own (a dict under that key
\* gives other columns)
Present(rec, c) == \E i \in 1..Len(rec) : rec[i][1] = c /\ rec[i][2].tag # "dict"

\* the cell holds the null sentinel
NullSentinel(c, v) == IF c = "currency" THEN v = "NA" ELSE IsNull(v)

\* C20: every row normalize_records returns has the 41 fixed columns, in the
\* fixed order, and no other: a column the record lacks holds the null
\* sentinel, and a field outside the fixed set is not in the row.
C20_FixedColumns ==
    pc = "start" =>
        /\ Len(columns) = 41
        /\ Cardinality(Labels(columns)) = 41
        /\ columns = preferred_order
        /\ Len(df) = Len(records)
        /\ \A i \in 1..Len(df) :
              /\ DOMAIN df[i] = Labels(columns) \cup {"idx"}
              /\ \A c \in Labels(columns) :
                    ~Present(records[i], c) => NullSentinel(c, df[i][c])

C20_Witness ==
    /\ pc = "start"
    /\ Len(df) = 3
    /\ \E i, j, k \in 1..3 :
          /\ HasKey(records[i], "extra_field")
          /\ HasKey(records[j], "meta")
          /\ records[k] = <<>>
          /\ "extra_field" \notin DOMAIN df[i]
          /\ IsNull(df[j].title)
          /\ IsNull(df[k].url)

(***************************************************************************)
(* Further claims about deduplicate_df (checked under SpecDedup).          *)
(***************************************************************************)
\* two rows have the same composite key tuple: on every key column of the
\* frame both are unknown or both hold the same value
SameKeyTuple(a, b) ==
    \A k \in 1..Len(KEY_COLUMNS) : HasColumn(columns, KEY_COLUMNS[k]) =>
        \/ a[KEY_COLUMNS[k]] = b[KEY_COLUMNS[k]]
        \/ IsNull(a[KEY_COLUMNS[k]]) /\ IsNull(b[KEY_COLUMNS[k]])

\* the positions of the rows of a frame that have no usable URL
NoUrlPositions(rows) == {i \in 1..Len(rows) : ~Usable(rows[i])}

C27_Step ==
    /\ (pc = "texts" /\ pc' = "keys") =>
          \A i \in 1..Len(df_no_url) :
              LET group == {j \in 1..Len(df_no_url) : SameKeyTuple(df_no_url[j], df_no_url[i])}
              IN  {k \in 1..Len(df_no_url') : df_no_url'[k].idx \in {df_no_url[j].idx : j \in group}}
                    = {k \in 1..Len(df_no_url') : df_no_url'[k] = df_no_url[Least(group)]}
                  /\ \E k \in 1..Len(df_no_url') : df_no_url'[k] = df_no_url[Least(group)]
    /\ (pc' = "returned" /\ UrlFrame) =>
          \A i, j \in NoUrlPositions(ret') : i < j =>
              /\ ~SameKeyTuple(ret'[i], ret'[j])
              /\ HasColumn(columns, "full_text") => ~SameText(ret'[i], ret'[j])

\* C27: the composite-key pass is applied to every row without a usable URL
\* that the full-text pass left: of the rows entering it with one composite
\* key tuple only the first in sort order is kept, whatever their full_text.
\* So in the dataset returned (frame with a url column) the rows without a
\* usable URL are pairwise different on the composite key tuple and, where
\* both have a text, on the normalized full_text.
C27_NoUrlRowsDistinct == [][C27_Step]_vars

C27_Witness ==
    /\ pc = "returned"
    /\ columns = DedupColumns
    /\ Cardinality(NoUrlPositions(ret)) = 2
    /\ \E i, j \in NoUrlPositions(dfc) :
          /\ i < j
          /\ SameKeyTuple(dfc[i], dfc[j])
          /\ dfc[i].full_text.tag = "str" /\ dfc[j].full_text.tag = "str"
          /\ ~SameText(dfc[i], dfc[j])
          /\ dfc[i].idx \in SurvivorLabels
          /\ dfc[j].idx \notin SurvivorLabels

\* the position in the sorted frame dfc of the row labelled l
SortedPosition(l) == CHOOSE p \in 1..Len(dfc) : dfc[p].idx = l

\* the labels of the returned rows in the order of the result: the rows with a
\* usable URL, then the others (frame with a url column)
ReturnedLabels ==
    IF UrlFrame
    THEN [k \in 1..(Len(df_with_url) + Len(df_no_url)) |->
            IF k <= Len(df_with_url) THEN df_with_url[k].idx
            ELSE df_no_url[k - Len(df_with_url)].idx]
    ELSE [k \in 1..Len(ret) |-> ret[k].idx]

\* the rows at the positions P of a frame follow the sort by scraped_at,
\* unknown timestamps last
InSortOrder(rows, P) == \A i, j \in P : i < j => ~Earlier(rows[j], rows[i])

\* C28: in the dataset returned, the rows with a usable URL, and the rows
\* without one, are in the order of the initial sort (scraped_at not
\* decreasing, unknown timestamps last), and two returned rows of one
\* partition are in the order they had in the sorted frame.
C28_OrderPreserved ==
    pc = "returned" =>
        /\ Len(ret) = Len(ReturnedLabels)
        /\ \A k \in 1..Len(ret) :
              Fields(ret[k]) = Fields(dfc[SortedPosition(ReturnedLabels[k])])
        /\ IF UrlFrame
           THEN /\ InSortOrder(ret, {k \in 1..Len(ret) : Usable(ret[k])})
                /\ InSortOrder(ret, NoUrlPositions(ret))
                /\ \A i, j \in 1..Len(ret) :
                      (i < j /\ (Usable(ret[i]) <=> Usable(ret[j]))) =>
                          SortedPosition(ReturnedLabels[i]) < SortedPosition(ReturnedLabels[j])
           ELSE /\ InSortOrder(ret, 1..Len(ret))
                /\ \A i, j \in 1..Len(ret) : i < j =>
                      SortedPosition(ReturnedLabels[i]) < SortedPosition(ReturnedLabels[j])

C28_Witness ==
    /\ pc = "returned"
    /\ UrlFrame
    /\ Len(ret) < Len(df)
    /\ \E i, j \in 1..Len(ret) :
          /\ i < j
          /\ Usable(ret[i]) /\ Usable(ret[j])
          /\ Earlier(ret[i], ret[j])
          /\ \E a, b \in 1..Len(df) :
                /\ a < b
                /\ df[a].url = ret[j].url /\ df[a].scraped_at = ret[j].scraped_at
                /\ df[b].url = ret[i].url /\ df[b].scraped_at = ret[i].scraped_at

(***************************************************************************)
(* Claims about a run of main (checked under SpecPipeline).                *)
(***************************************************************************)
\* C21 as stated: no record aborts the batch.  Loading and normalization end
\* without an exception whatever the files hold, and the dataset normalised has
\* a row for every mapping among the loaded elements (the others are skipped).
C21_NoRecordAborts ==
    /\ pc # "raised"
    /\ pc = "start" =>
          Len(df) = Cardinality({i \in 1..Len(records) : IsMapping(records[i])})

\* no file of the input directory gives a record
NoRecordFound ==
    \A k \in 1..Len(files) : files[k].kind \notin {"list", "dict"} \/ files[k].data = <<>>

\* C22: when no input record is found the run halts before it writes:
\* no dataset file, no profile report and no null-count summary exists at any
\* point of the run, and the run never gets past the test for records.
C22_HaltsBeforeWriting ==
    NoRecordFound =>
        /\ pc \in {"main", "read", "halted"}
        /\ written.parquet = <<>>
        /\ written.profile = <<>>
        /\ written.null_counts = <<>>

C22_Witness ==
    /\ pc = "halted"
    /\ Len(files) = 3
    /\ NoRecordFound
    /\ written = NothingWritten

\* the positions of a run that finds records, in program order: the records
\* are read, normalised ("start"), reconciled ("done"), deduplicated
\* ("returned"), written ("written") and profiled ("profiled")
Positions ==
    <<"main", "read", "start", "inferred", "parsed", "converted", "filtered", "done",
      "dedup", "canonical", "sorted", "split", "texts", "keys", "returned",
      "written", "profiled", "saved">>

Rank(p) == CHOOSE k \in 1..Len(Positions) : Positions[k] = p

C23_Step ==
    /\ pc' \notin {"halted", "raised"} => Rank(pc') = Rank(pc) + 1
    /\ pc' \in {"halted", "raised"} => pc = "read"
    /\ pc' = "halted" <=> (pc = "read" /\ records = <<>>)
    \* each stage is given what the stage before it returned
    /\ pc' = "inferred" => Len(d') = Len(df) /\ df = NormalizeRecords(records).rows
    /\ pc' = "dedup" => df' = d
    /\ pc' = "canonical" => Len(dfc') = Len(df)
    /\ pc' = "written" => written'.parquet = <<[k \in 1..Len(ret) |-> Fields(ret[k])]>>
    \* the report is made once, from the dataset written
    /\ report' # report => pc' = "profiled"
    /\ written'.parquet # written.parquet => pc' = "written"
    /\ pc' = "profiled" =>
          /\ Len(written.parquet) = 1
          /\ report'.row_count = Len(written.parquet[1])
          /\ \A k \in 1..Len(df) : Fields(df[k]) = written.parquet[1][k]
          /\ df = ret
    /\ pc' = "saved" => written'.profile = <<report>> /\ report' = report

\* C23: in a run that finds records the stages are executed in the order
\* normalize, reconcile, deduplicate, write dataset, profile, none skipped and
\* none repeated, each on the result of the one before; the profile report is
\* computed once, from the deduplicated dataset that was written, and its
\* row_count is the number of rows written.
C23_StagesInOrder == [][C23_Step]_vars

C23_Witness ==
    /\ pc = "saved"
    /\ Len(records) = 3
    /\ report.row_count = 2
    /\ Len(written.parquet[1]) = 2
    /\ written.profile = <<report>>

\* C29: apply_notebook_cleaning_rules, deduplicate_df and basic_analysis leave
\* the dataset passed to them as it was at every step they make (the rows, the
\* field values and the order), and what each returns is what a second call
\* on that dataset gives.  For deduplicate_df, whose sort leaves the order of
\* rows with equal timestamps open, the result is one of those the second call
\* may give.
C29_Step ==
    /\ pc \in {"start", "inferred", "parsed", "converted", "filtered"} => df' = df
    /\ pc \in {"dedup", "canonical", "sorted", "split", "texts", "keys"} => df' = df
    /\ pc = "written" => df' = df
    /\ pc' = "done" => d' = ApplyNotebookCleaningRules(df')
    /\ pc' = "returned" => ret' \in DeduplicateDf(df', columns')
    /\ pc' = "profiled" => report' = BasicAnalysisOf(df', columns')

Observations(c) == SelectSeq([i \in 1..Len(df) |-> df[i][c]], LAMBDA v : v.kind = "num")

\* the m-th smallest of the observations s
OrderStatistic(s, m) ==
    CHOOSE v \in {s[i] : i \in 1..Len(s)} :
        /\ Cardinality({i \in 1..Len(s) : Lt(s[i], v)}) < m
        /\ m <= Cardinality({i \in 1..Len(s) : ~Lt(v, s[i])})

\* the k-th quartile of s: the point k/4 of the way from the smallest to the
\* largest observation, between the two order statistics around it
Quartile(s, k) ==
    LET r == ((Len(s) - 1) * k) % 4
        lo == ((Len(s) - 1) * k) \div 4 + 1
    IN  IF r = 0 THEN OrderStatistic(s, lo)
        ELSE Mul(Plus(Mul(Num(4 - r), OrderStatistic(s, lo)),
                      Mul(Num(r), OrderStatistic(s, lo + 1))), Rat(1, 4))

\* the bounds of Tukey's rule: Q1 - 1.5 * (Q3 - Q1) and Q3 + 1.5 * (Q3 - Q1)
TukeyLower(s) == Minus(Quartile(s, 1), Mul(Rat(15, 10), Minus(Quartile(s, 3), Quartile(s, 1))))
TukeyUpper(s) == Plus(Quartile(s, 3), Mul(Rat(15, 10), Minus(Quartile(s, 3), Quartile(s, 1))))

\* C24: the report has no outlier bounds for price_numeric or price_per_sqm
\* when the column is missing or has fewer than 10 non-null observations; with
\* 10 or more, lower = Q1 - 1.5*(Q3-Q1), upper = Q3 + 1.5*(Q3-Q1), num_below
\* and num_above count the observations strictly below and above them, and
\* together they are no more than the observations.  No other column has bounds.
C24_OutlierBounds ==
    pc = "profiled" =>
        /\ DOMAIN report.outliers_iqr \subseteq {"price_numeric", "price_per_sqm"}
        /\ \A c \in {"price_numeric", "price_per_sqm"} :
              IF HasColumn(columns, c) /\ Len(Observations(c)) >= 10
              THEN /\ c \in DOMAIN report.outliers_iqr
                   /\ LET s == Observations(c)
                          o == report.outliers_iqr[c]
                      IN  /\ o.lower_bound = TukeyLower(s)
                          /\ o.upper_bound = TukeyUpper(s)
                          /\ o.num_below = Cardinality({i \in 1..Len(s) : Lt(s[i], o.lower_bound)})
                          /\ o.num_above = Cardinality({i \in 1..Len(s) : Lt(o.upper_bound, s[i])})
                          /\ o.num_below + o.num_above <= Len(s)
              ELSE c \notin DOMAIN report.outliers_iqr

C24_Witness ==
    /\ pc = "profiled"
    /\ Len(df) = 11
    /\ DOMAIN report.outliers_iqr = {"price_numeric"}
    /\ Len(Observations("price_numeric")) = 10
    /\ HasColumn(columns, "price_per_sqm")
    /\ report.outliers_iqr["price_numeric"].num_below = 1
    /\ report.outliers_iqr["price_numeric"].num_above = 1

\* C25: the report's row_count is the number of rows of the dataset, and it
\* has a null count for every column of the dataset and for nothing else: the
\* number of rows whose value in that column is the null sentinel, which is
\* between 0 and row_count.
C25_RowAndNullCounts ==
    pc = "profiled" =>
        /\ report.row_count = Len(df)
        /\ DOMAIN report.null_counts = {columns[k] : k \in 1..Len(columns)}
        /\ \A c \in DOMAIN report.null_counts :
              /\ report.null_counts[c]
                    = Cardinality({i \in 1..Len(df) : NullSentinel(c, df[i][c])})
              /\ 0 <= report.null_counts[c]
              /\ report.null_counts[c] <= report.row_count

C25_Witness ==
    /\ pc = "profiled"
    /\ report.row_count = 4
    /\ Len(columns) = 4
    /\ report.null_counts["location"] = 3
    /\ report.null_counts["price_numeric"] = 1
    /\ report.null_counts["price_per_sqm"] = 2
    /\ report.null_counts["currency"] = 1

(***************************************************************************)
(* Claims about PropertyDataCleaner (checked under SpecUpdate, SpecBatch). *)
(***************************************************************************)
\* a value that is null or empty: None or the empty string
NullOrEmpty(v) == v.tag = "None" \/ (v.tag = "str" /\ v.s = <<>>)

\* on the keys K the dict a has what the dict b has: the same keys, the same values
AgreeOn(a, b, K) ==
    \A k \in K : /\ k \in DOMAIN a <=> k \in DOMAIN b
                 /\ k \in DOMAIN a => a[k] = b[k]

UpdatableFields == {fields_to_update[k] : k \in 1..Len(fields_to_update)}

\* C26 as stated: for each of the 24 updatable fields the result has the
\* corrected value when it is present and neither null nor empty, and the
\* original value otherwise; every other field of the original is unchanged
\* and no other key is added.
C26_NonEmptyOverrides ==
    pc = "updated" =>
        /\ \A f \in UpdatableFields :
              IF f \in DOMAIN corrected /\ ~NullOrEmpty(corrected[f])
              THEN f \in DOMAIN updated /\ updated[f] = corrected[f]
              ELSE AgreeOn(updated, original, {f})
        /\ AgreeOn(updated, original, (DOMAIN updated \cup DOMAIN original) \ UpdatableFields)

\* the fields update_property_data computes anew
DerivedFields == {"data_completeness", "feature_count"}

\* C26, amended: for each of the 24 updatable fields the result has the
\* corrected value when the key is present in corrected with a value that is
\* not None (an empty string, "N/A", False and 0 override too), and the
\* original value, or no value, otherwise; data_completeness and feature_count
\* are always set, recomputed from the merged record; every other field of the
\* original is unchanged and no other key is added.
C26_NonNullOverrides ==
    pc = "updated" =>
        /\ \A f \in UpdatableFields :
              IF f \in DOMAIN corrected /\ corrected[f].tag # "None"
              THEN f \in DOMAIN updated /\ updated[f] = corrected[f]
              ELSE AgreeOn(updated, original, {f})
        /\ AgreeOn(updated, original,
                   (DOMAIN updated \cup DOMAIN original) \ (UpdatableFields \cup DerivedFields))
        /\ DerivedFields \subseteq DOMAIN updated
        /\ updated.data_completeness.tag = "num"
        /\ updated.data_completeness.s.num * 24
              = 100 * updated.data_completeness.s.den
                    * Cardinality({f \in UpdatableFields :
                         /\ f \in DOMAIN updated
                         /\ ~NullOrEmpty(updated[f])
                         /\ ~(updated[f].tag = "str" /\ updated[f].s = <<"N", "/", "A">>)
                         /\ ~(updated[f].tag = "bool" /\ updated[f].s = FALSE)
                         /\ ~(updated[f].tag = "num" /\ updated[f].s = Num(0))})
        /\ updated.feature_count
              = NumV(Num(Cardinality({f \in UpdatableFields :
                    /\ f \in {boolean_features[k] : k \in 1..Len(boolean_features)}
                    /\ f \in DOMAIN updated
                    /\ updated[f].tag = "bool" /\ updated[f].s})))

C26_Witness ==
    /\ pc = "updated"
    /\ DOMAIN original = {"price_raw", "bedrooms", "title", "data_completeness"}
    /\ DOMAIN corrected = {"price_raw", "bedrooms", "has_pool", "notes"}
    /\ original.price_raw = Price5
    /\ corrected.price_raw = StrV(<<>>)
    /\ corrected.bedrooms = NoneV
    /\ updated.price_raw = StrV(<<>>)
    /\ updated.bedrooms = original.bedrooms
    /\ updated.has_pool = BoolV(TRUE)
    /\ updated.data_completeness # original.data_completeness
    /\ DOMAIN updated = DOMAIN original \cup {"has_pool", "feature_count"}

\* the properties process_batch goes through, in input order
Batch == [k \in 1..(Len(properties) - start_index) |-> properties[start_index + k]]

\* a property is passed through with its original field values when its
\* full_text is empty (or missing), when processing it raises and when its
\* model call or the parsing of the response fails
PassedThrough(p) ==
    \/ "full_text" \notin DOMAIN p.data
    \/ p.data.full_text.tag # "str"
    \/ Words(p.data.full_text.s) = <<>>
    \/ p.response.kind # "json"

\* a property reaches update_property_data when it has a text to analyse
ReachesUpdate(p) ==
    /\ "full_text" \in DOMAIN p.data
    /\ p.data.full_text.tag = "str"
    /\ Words(p.data.full_text.s) # <<>>

\* C30 as stated: process_batch returns one entry per property from
\* start_index on, in input order; a property with empty full_text, one whose
\* model call or response parsing fails and one whose processing raises are
\* passed through with their original field values; processed_count grows by
\* one for each property that reached update_property_data.
C30_OneEntryPerProperty ==
    pc = "returned" =>
        /\ Len(ret) = Len(properties) - start_index
        /\ \A k \in 1..Len(Batch) : k <= Len(ret) =>
              IF PassedThrough(Batch[k])
              THEN ret[k] = Batch[k].data
              ELSE ret[k] = UpdatePropertyData(Batch[k].data, Batch[k].response.data)
        /\ processed_count = Cardinality({k \in 1..Len(Batch) : ReachesUpdate(Batch[k])})

====
